---- MODULE Spec2Model ----
(***************************************************************************)
(* A model of the conversational planning agents of the VEDYA backend:    *)
(* the session store, the stage router, the keyword extractors and the    *)
(* plan generators of ai_planning_agent.py, ai_planning_dict.py,          *)
(* conversational_chat.py, simple_planning_agent.py and                   *)
(* professional_planning.py.                                               *)
(*                                                                         *)
(* One behaviour runs one agent instance (the variable agent names it).   *)
(* A message is the set of text fragments it contains; a keyword test     *)
(* `kw in message.lower()` is a substring test against those fragments.   *)
(***************************************************************************)
EXTENDS Integers, Sequences, FiniteSets, TLC

VARIABLES
    agent,      \* which agent instance this behaviour runs
    sessions,   \* self.sessions: session id -> session (self.assessment_cache of
                \* the assessment agent: cache key -> assessment)
    uuids,      \* number of uuid.uuid4() values drawn so far
    pending,    \* requests suspended at `await self.llm.ainvoke(...)`
    calls,      \* number of process_message calls started
    ret,        \* the last value returned by process_message, with its inputs
    db          \* the database of UserService: table name -> sequence of rows

vars == <<agent, sessions, uuids, pending, calls, ret, db>>

(***************************************************************************)
(* Bounds of the model.                                                    *)
(***************************************************************************)
MaxCalls == 3
MaxPending == 2
MaxCallsS == 5

(***************************************************************************)
(* Text.                                                                   *)
(***************************************************************************)
\* str.lower() on one fragment
Lower(w) ==
    CASE w = "Python" -> "python"
      [] w = "Beginner" -> "beginner"
      [] OTHER -> w

\* message.lower()
LowerMsg(m) == {Lower(w) : w \in m}

\* the pairs <<kw, w>> of distinct modelled fragments with kw a substring of w
Substrings ==
    { <<"project", "projects">>, <<"hour", "10 hours">>, <<"hours", "10 hours">>,
      <<"new", "new to this">>, <<"start", "starting">>, <<"start", "start learning">>,
      <<"learn", "start learning">>, <<"month", "months">>, <<"ai", "generative ai">>,
      <<"java", "javascript">>, <<"code", "can code">>, <<"experience", "some experience">>,
      <<"some", "some experience">>, <<"week", "weeks">>, <<"begin", "beginner">> }

\* `kw in text` for a lower-cased text
Has(text, kw) == \E w \in text : kw = w \/ <<kw, w>> \in Substrings

\* any(kw in text for kw in kws)
HasAny(text, kws) == \E kw \in kws : Has(text, kw)

\* str.title() of the strings the agents title-case
Title(s) ==
    CASE s = "python" -> "Python"
      [] s = "ai" -> "Ai"
      [] s = "generative ai" -> "Generative Ai"
      [] s = "programming" -> "Programming"
      [] s = "the subject" -> "The Subject"
      [] s = "the topic" -> "The Topic"
      [] OTHER -> s

\* the text of a reply, as a one-fragment text
Reply(s) == {s}

(***************************************************************************)
(* Session identifiers: None, a client-supplied string, or str(uuid4()).  *)
(***************************************************************************)
NoneId == [kind |-> "none", s |-> "", n |-> 0]
StrId(s) == [kind |-> "str", s |-> s, n |-> 0]
UuidId(n) == [kind |-> "uuid", s |-> "", n |-> n]

\* Python truthiness of an Optional[str]
Truthy(id) == id.kind = "uuid" \/ (id.kind = "str" /\ id.s # "")

\* the session ids a client may send: none, empty, a chosen one, or one it was given
ClientIds == {NoneId, StrId(""), StrId("s1")}
RequestIds == ClientIds \cup DOMAIN sessions

(***************************************************************************)
(* Dictionaries.                                                           *)
(***************************************************************************)
EmptyDict == <<>>
\* the database before any row is inserted
EmptyDb == [users |-> <<>>, learning_plans |-> <<>>]
SetKey(d, k, v) == [x \in DOMAIN d \cup {k} |-> IF x = k THEN v ELSE d[x]]
Get(d, k, default) == IF k \in DOMAIN d THEN d[k] ELSE default
Size(d) == Cardinality(DOMAIN d)

None == [none |-> TRUE]

(***************************************************************************)
(* ai_planning_agent.py                                                    *)
(***************************************************************************)
StageRank(stage) ==
    CASE stage = "initial" -> 0
      [] stage = "gathering" -> 1
      [] stage = "planning" -> 2
      [] stage = "complete" -> 3

NewSession(id) ==
    [session_id |-> id, stage |-> "initial", profile |-> EmptyDict,
     conversation_history |-> <<>>, learning_plan |-> None]

\* get_or_create_session without the lookup of the stored session
GetOrCreateSession_AlwaysNew(ss, u, session_id) ==
    LET new_session_id == IF Truthy(session_id) THEN session_id ELSE UuidId(u + 1)
        drawn == IF Truthy(session_id) THEN u ELSE u + 1
    IN [sessions |-> [x \in DOMAIN ss \cup {new_session_id} |->
                         IF x = new_session_id THEN NewSession(new_session_id) ELSE ss[x]],
        id |-> new_session_id, uuids |-> drawn]

\* get_or_create_session, a variant that stores a new session under a new uuid
GetOrCreateSession_NewUuid(ss, u, session_id) ==
    IF Truthy(session_id) /\ session_id \in DOMAIN ss
    THEN [sessions |-> ss, id |-> session_id, uuids |-> u]
    ELSE LET new_session_id == UuidId(u + 1)
         IN [sessions |-> [x \in DOMAIN ss \cup {new_session_id} |->
                              IF x = new_session_id THEN NewSession(new_session_id) ELSE ss[x]],
             id |-> new_session_id, uuids |-> u + 1]

\* get_or_create_session: the store afterwards, the id of the session, uuids drawn
GetOrCreateSession(ss, u, session_id) ==
    IF Truthy(session_id) /\ session_id \in DOMAIN ss
    THEN [sessions |-> ss, id |-> session_id, uuids |-> u]
    ELSE LET new_session_id == IF Truthy(session_id) THEN session_id ELSE UuidId(u + 1)
             drawn == IF Truthy(session_id) THEN u ELSE u + 1
         IN [sessions |-> [x \in DOMAIN ss \cup {new_session_id} |->
                              IF x = new_session_id THEN NewSession(new_session_id) ELSE ss[x]],
             id |-> new_session_id, uuids |-> drawn]

AppendHistory(session, sender, text) ==
    [session EXCEPT !.conversation_history =
        Append(@, [sender |-> sender, message |-> text])]

SubjectsA ==
    <<"generative ai", "ai", "programming", "python", "javascript", "web development",
      "data science", "machine learning", "mathematics", "physics", "chemistry">>

\* index of the first keyword of seq found in text, 0 if none
FirstMatch(seq, text) ==
    LET hits == {i \in DOMAIN seq : Has(text, seq[i])}
    IN IF hits = {} THEN 0 ELSE CHOOSE i \in hits : \A j \in hits : i <= j

FallbackInitialA == "Hello! I'm here to help you create a personalized learning plan. What subject would you like to learn?"
FallbackGatheringA == "Could you tell me about your experience level and learning preferences?"
CompleteAckA == "Your learning plan is complete! You can now start your learning journey."
PlanMessageA == "Perfect! I've created your personalized learning plan"
LlmContent == "<llm content>"

\* _handle_initial_conversation after the await
HandleInitialA(session, message, llm) ==
    IF llm = "raise"
    THEN [session |-> session, message |-> FallbackInitialA, uuids |-> 0]
    ELSE LET message_lower == LowerMsg(message)
             i == FirstMatch(SubjectsA, message_lower)
         IN [session |-> IF i = 0 THEN session
                         ELSE [session EXCEPT !.profile = SetKey(@, "subject", SubjectsA[i]),
                                              !.stage = "gathering"],
             message |-> LlmContent, uuids |-> 0]

PlanA(requirements, u) ==
    LET subject == Get(requirements, "subject", "the subject")
    IN [plan_id |-> u + 1,
        title |-> <<"Personalized", Title(subject), "Learning Plan">>,
        subject |-> subject,
        difficulty_level |-> Get(requirements, "experience", "beginner"),
        learning_style |-> Get(requirements, "learning_style", "mixed"),
        total_duration_weeks |-> 12,
        modules |->
          << [title |-> <<Title(subject), "Fundamentals">>, duration_weeks |-> 4],
             [title |-> <<"Intermediate", Title(subject)>>, duration_weeks |-> 4],
             [title |-> <<"Advanced", Title(subject), "& Applications">>, duration_weeks |-> 4] >>,
        kanban_tasks |->
          << [task_id |-> u + 2, title |-> "Complete Module 1: Fundamentals",
              status |-> "todo", priority |-> "high", estimated_hours |-> 40],
             [task_id |-> u + 3, title |-> "Complete Module 2: Intermediate Skills",
              status |-> "todo", priority |-> "medium", estimated_hours |-> 40],
             [task_id |-> u + 4, title |-> "Complete Module 3: Advanced Applications",
              status |-> "todo", priority |-> "medium", estimated_hours |-> 40] >>]

\* _generate_learning_plan
GenerateLearningPlanA(session, u) ==
    [session |-> [session EXCEPT !.learning_plan = PlanA(session.profile, u),
                                 !.stage = "complete"],
     message |-> PlanMessageA, uuids |-> 4]

\* the keyword extraction of _handle_requirements_gathering
ExtractA(raw_data, message) ==
    LET message_lower == LowerMsg(message)
        d1 == IF Has(message_lower, "beginner") \/ Has(message_lower, "new")
                THEN SetKey(raw_data, "experience", "beginner")
              ELSE IF Has(message_lower, "intermediate")
                THEN SetKey(raw_data, "experience", "intermediate")
              ELSE IF Has(message_lower, "advanced")
                THEN SetKey(raw_data, "experience", "advanced")
              ELSE raw_data
    IN IF Has(message_lower, "hands-on") \/ Has(message_lower, "practice")
         THEN SetKey(d1, "learning_style", "hands-on")
       ELSE IF Has(message_lower, "visual")
         THEN SetKey(d1, "learning_style", "visual")
       ELSE IF Has(message_lower, "reading")
         THEN SetKey(d1, "learning_style", "reading")
       ELSE d1

\* _handle_requirements_gathering restarting the conversation when the LLM call raises
HandleGatheringA_FailureRestarts(session, message, llm, u) ==
    IF llm = "raise"
    THEN [session |-> [session EXCEPT !.stage = "initial"], message |-> FallbackInitialA,
          uuids |-> 0]
    ELSE LET s1 == [session EXCEPT !.profile = ExtractA(@, message)]
         IN IF Size(s1.profile) >= 3
            THEN GenerateLearningPlanA([s1 EXCEPT !.stage = "planning"], u)
            ELSE [session |-> s1, message |-> LlmContent, uuids |-> 0]

\* _handle_requirements_gathering with the extraction moved before the LLM call
HandleGatheringA_ExtractsBeforeLlm(session, message, llm, u) ==
    LET s1 == [session EXCEPT !.profile = ExtractA(@, message)]
    IN IF llm = "raise"
       THEN [session |-> s1, message |-> FallbackGatheringA, uuids |-> 0]
       ELSE IF Size(s1.profile) >= 3
            THEN GenerateLearningPlanA([s1 EXCEPT !.stage = "planning"], u)
            ELSE [session |-> s1, message |-> LlmContent, uuids |-> 0]

\* _handle_requirements_gathering after the await
HandleGatheringA(session, message, llm, u) ==
    IF llm = "raise"
    THEN [session |-> session, message |-> FallbackGatheringA, uuids |-> 0]
    ELSE LET s1 == [session EXCEPT !.profile = ExtractA(@, message)]
         IN IF Size(s1.profile) >= 3
            THEN GenerateLearningPlanA([s1 EXCEPT !.stage = "planning"], u)
            ELSE [session |-> s1, message |-> LlmContent, uuids |-> 0]

\* _handle_complete_stage
HandleCompleteA(session) ==
    [session |-> session, message |-> CompleteAckA, uuids |-> 0]

\* the routing with COMPLETE falling into the plan-generation branch
RouteA_CompleteRegenerates(stage) ==
    CASE stage = "initial" -> "_handle_initial_conversation"
      [] stage = "gathering" -> "_handle_requirements_gathering"
      [] OTHER -> "_handle_plan_generation"

\* the handler process_message routes to for a stage
RouteA(stage) ==
    CASE stage = "initial" -> "_handle_initial_conversation"
      [] stage = "gathering" -> "_handle_requirements_gathering"
      [] stage = "planning" -> "_handle_plan_generation"
      [] OTHER -> "_handle_complete_stage"

\* does the handler suspend at an LLM call
AwaitsLlmA(handler) ==
    handler \in {"_handle_initial_conversation", "_handle_requirements_gathering"}

\* the handler's work once its LLM call (if any) has returned or raised
RunHandlerA(handler, session, message, llm, u) ==
    CASE handler = "_handle_initial_conversation" -> HandleInitialA(session, message, llm)
      [] handler = "_handle_requirements_gathering" -> HandleGatheringA(session, message, llm, u)
      [] handler = "_handle_plan_generation" -> GenerateLearningPlanA(session, u)
      [] OTHER -> HandleCompleteA(session)

\* process_message up to the handler's first await: the store, the session, the handler
BeginMessageA(ss, u, session_id, message) ==
    LET g == GetOrCreateSession(ss, u, session_id)
        session == AppendHistory(g.sessions[g.id], "user", message)
    IN [sessions |-> [g.sessions EXCEPT ![g.id] = session], id |-> g.id,
        uuids |-> g.uuids, handler |-> RouteA(session.stage)]

\* process_message from the handler's resumption to its return
FinishMessageA(ss, u, id, handler, message, llm) ==
    LET h == RunHandlerA(handler, ss[id], message, llm, u)
        session == AppendHistory(h.session, "ai", Reply(h.message))
    IN [sessions |-> [ss EXCEPT ![id] = session], uuids |-> u + h.uuids,
        result |-> [response |-> Reply(h.message), session_id |-> session.session_id,
                    stage |-> session.stage,
                    plan_ready |-> session.stage = "complete" /\ session.learning_plan # None]]

\* what ret records of a finished call
Returned(result, session_id, message, llm, handler) ==
    [result |-> result, session_id |-> session_id, message |-> message, llm |-> llm,
     handler |-> handler]

NoReturn == [none |-> TRUE]

WordsA == {"Python", "beginner", "advanced", "hands-on"}
ScenarioMsg ==
    {"I want to", "learn", "Python", "I'm a", "beginner", "I prefer", "hands-on", "projects"}
\* the messages a client sends: none, one or two of the keywords, or the scenario sentence
MessagesA == {{}} \cup {{w1, w2} : w1 \in WordsA, w2 \in WordsA} \cup {ScenarioMsg}
LlmOutcomesA == {"ok", "raise"}

\* one process_message call handled on its own, from request to return
ProcessMessageA(session_id, message, llm) ==
    /\ calls < MaxCalls
    /\ pending = <<>>
    /\ LET b == BeginMessageA(sessions, uuids, session_id, message)
           f == FinishMessageA(b.sessions, b.uuids, b.id, b.handler, message, llm)
       IN /\ sessions' = f.sessions
          /\ uuids' = f.uuids
          /\ ret' = Returned(f.result, session_id, message, llm, b.handler)
    /\ calls' = calls + 1
    /\ UNCHANGED <<db, agent, pending>>

InitA ==
    /\ agent = "ai_planning_agent"
    /\ sessions = <<>>
    /\ uuids = 0
    /\ pending = <<>>
    /\ calls = 0
    /\ ret = NoReturn
    /\ db = EmptyDb

\* one client talking to one session, one message at a time
NextA ==
    /\ agent = "ai_planning_agent"
    /\ \E message \in MessagesA, llm \in LlmOutcomesA :
          ProcessMessageA(StrId("s1"), message, llm)

SpecA == InitA /\ [][NextA]_vars

\* clients sending every kind of session id, one message at a time
StoreMessagesA == {{}, {"Python"}}

NextStoreA ==
    /\ agent = "ai_planning_agent"
    /\ \E session_id \in RequestIds, message \in StoreMessagesA, llm \in LlmOutcomesA :
          ProcessMessageA(session_id, message, llm)

SpecStoreA == InitA /\ [][NextStoreA]_vars

(***************************************************************************)
(* ai_planning_agent.py with overlapping requests: a request is suspended *)
(* at its handler's LLM call and other requests run until it resumes.     *)
(***************************************************************************)
\* process_message from the request to the handler's `await self.llm.ainvoke`
BeginA(session_id, message) ==
    /\ calls < MaxCalls
    /\ Size(pending) < MaxPending
    /\ LET b == BeginMessageA(sessions, uuids, session_id, message)
       IN IF AwaitsLlmA(b.handler)
          THEN /\ sessions' = b.sessions
               /\ uuids' = b.uuids
               /\ pending' = SetKey(pending, calls + 1,
                                [id |-> b.id, handler |-> b.handler, message |-> message,
                                 session_id |-> session_id])
               /\ ret' = ret
          ELSE LET f == FinishMessageA(b.sessions, b.uuids, b.id, b.handler, message, "ok")
               IN /\ sessions' = f.sessions
                  /\ uuids' = f.uuids
                  /\ pending' = pending
                  /\ ret' = Returned(f.result, session_id, message, "ok", b.handler)
    /\ calls' = calls + 1
    /\ UNCHANGED <<db, agent>>

\* the LLM call of request r returns or raises and process_message runs to its return
ResumeA(r, llm) ==
    /\ r \in DOMAIN pending
    /\ LET q == pending[r]
           f == FinishMessageA(sessions, uuids, q.id, q.handler, q.message, llm)
       IN /\ sessions' = f.sessions
          /\ uuids' = f.uuids
          /\ ret' = Returned(f.result, q.session_id, q.message, llm, q.handler)
    /\ pending' = [x \in DOMAIN pending \ {r} |-> pending[x]]
    /\ UNCHANGED <<db, agent, calls>>

ConcMessagesA == {{"Python"}, {"beginner", "hands-on"}, {"advanced", "hands-on"}}

NextConcA ==
    /\ agent = "ai_planning_agent"
    /\ \/ \E message \in ConcMessagesA : BeginA(StrId("s1"), message)
       \/ \E r \in DOMAIN pending, llm \in LlmOutcomesA : ResumeA(r, llm)

SpecConcA == InitA /\ [][NextConcA]_vars

(***************************************************************************)
(* ai_planning_dict.py: the agent whose replies and plans come from       *)
(* structured LLM output, with keyword fallbacks.  One process_message    *)
(* call makes up to three LLM calls; llms is the sequence of their        *)
(* outcomes in the order the calls are made.                               *)
(***************************************************************************)
\* a JSON null among the values of a Dict[str, Any] the LLM returns
NullValue == "<null>"
IsStr(v) == v # NullValue
\* Python truthiness of a profile value
Falsy(v) == v = NullValue \/ v = ""

\* the outcome of one LLM call followed by its parser
LlmRaise == [kind |-> "raise", subject |-> "", ready |-> FALSE, data |-> EmptyDict, plan |-> None]
LlmUnparseable == [LlmRaise EXCEPT !.kind = "unparseable"]
LlmIncomplete == [LlmRaise EXCEPT !.kind = "incomplete"]
\* a ConversationResponse / RequirementsResponse the parser accepts
LlmParsed(subject, ready, data) ==
    [kind |-> "parsed", subject |-> subject, ready |-> ready, data |-> data, plan |-> None]
\* a LearningPlan the parser accepts, with nm modules and nt kanban tasks
LlmPlan(nm, nt) ==
    [kind |-> "parsed", subject |-> "", ready |-> FALSE, data |-> EmptyDict,
     plan |-> [plan_id |-> 0, subject |-> "<llm>", difficulty_level |-> "<llm>",
               learning_style |-> "<llm>",
               modules |-> [i \in 1..nm |-> [title |-> <<"<llm module>">>, duration_weeks |-> 4]],
               kanban_tasks |-> [i \in 1..nt |-> [task_id |-> 0, title |-> "<llm task>",
                                   status |-> "todo", priority |-> "medium",
                                   estimated_hours |-> 10]]]]
\* the call that was never made
LlmNone == [LlmRaise EXCEPT !.kind = "none"]
LlmAt(llms, k) == IF k <= Len(llms) THEN llms[k] ELSE LlmNone

\* dict.update
Update(d, e) == [x \in DOMAIN d \cup DOMAIN e |-> IF x \in DOMAIN e THEN e[x] ELSE d[x]]

FallbackLearnD == "I understand you want to learn something. Could you tell me more about the specific subject or skill you're interested in?"
FallbackHelloD == "Hello! I'm VEDYA, your learning assistant. What would you like to learn today?"
ReadyD == "Great! I have enough information to create your personalized learning plan. Let me prepare that for you..."
PerfectD == "Perfect! I have enough information to create your learning plan. Let me prepare a detailed plan for you."
PreparingD == "Your learning plan is being prepared. Please wait while I finalize the details."
PlanReadyD == "Your learning plan is ready! You can view it on the plan page and start learning when you're ready."

\* _get_next_question
GetNextQuestion(missing_field) ==
    CASE missing_field = "experience_level" -> "What's your current experience level with this subject? Are you a complete beginner, have some experience, or would you consider yourself advanced?"
      [] missing_field = "learning_style" -> "How do you prefer to learn? Through videos and visual materials, hands-on projects and practice, reading materials, or a mix of all styles?"
      [] missing_field = "time_availability" -> "How much time can you dedicate to learning each week? For example, 5-10 hours per week?"
      [] missing_field = "timeline" -> "What's your ideal timeline for completing this learning journey? A few weeks, a couple of months, or do you prefer to take it slowly?"
      [] missing_field = "specific_goals" -> "What specific goals do you hope to achieve? Are you learning for personal interest, career advancement, or a particular project?"
      [] OTHER -> "Could you tell me more about your learning preferences?"

\* _handle_initial_conversation; g is the outcome of its LLM call
HandleInitialD(session, message, g) ==
    IF g.kind = "parsed"
    THEN LET d1 == IF g.subject # "" THEN SetKey(session.profile, "subject", g.subject)
                   ELSE session.profile
             d2 == IF g.data # EmptyDict THEN Update(d1, g.data) ELSE d1
         IN [session |-> [session EXCEPT !.profile = d2,
                                         !.stage = IF g.ready THEN "gathering" ELSE @],
             message |-> LlmContent]
    ELSE IF HasAny(LowerMsg(message), {"learn", "study", "teach"})
         THEN [session |-> [session EXCEPT !.stage = "gathering"], message |-> FallbackLearnD]
         ELSE [session |-> session, message |-> FallbackHelloD]

\* _generate_fallback_plan
FallbackPlanD(requirements, u) ==
    LET subject == Get(requirements, "subject", "the topic")
    IN [plan_id |-> u + 1,
        subject |-> subject,
        difficulty_level |-> Get(requirements, "experience_level", "beginner"),
        learning_style |-> Get(requirements, "learning_style", "mixed"),
        modules |->
          << [title |-> <<Title(subject), "Fundamentals">>, duration_weeks |-> 3],
             [title |-> <<"Intermediate", Title(subject)>>, duration_weeks |-> 4],
             [title |-> <<"Advanced", Title(subject), "& Projects">>, duration_weeks |-> 5] >>,
        kanban_tasks |->
          << [task_id |-> u + 2, title |-> "Complete Module 1", status |-> "todo",
              priority |-> "high", estimated_hours |-> 20],
             [task_id |-> u + 3, title |-> "Complete Module 2", status |-> "todo",
              priority |-> "medium", estimated_hours |-> 30] >>]

\* what one invocation of _generate_learning_plan did: p the outcome of its LLM
\* call, gen what the invocation returned
Generation(p, gen) ==
    [llm_failed |-> p.kind # "parsed", llm_calls |-> gen.llm_calls,
     fallbacks |-> gen.fallbacks, raised |-> gen.raised]

\* _generate_learning_plan, a variant that asks the LLM again when the first
\* answer fails and only then falls back
GenerateLearningPlanD_Retries(session, p, u) ==
    IF p.kind = "parsed"
    THEN [session |-> [session EXCEPT !.learning_plan = p.plan, !.stage = "complete"],
          raised |-> FALSE, uuids |-> 0, fallbacks |-> 0, llm_calls |-> 1]
    ELSE LET plan == FallbackPlanD(session.profile, u)
         IN IF ~IsStr(plan.subject) \/ ~IsStr(plan.difficulty_level)
                \/ ~IsStr(plan.learning_style)
            THEN [session |-> session, raised |-> TRUE, uuids |-> 1, fallbacks |-> 1,
                  llm_calls |-> 2]
            ELSE [session |-> [session EXCEPT !.learning_plan = plan, !.stage = "complete"],
                  raised |-> FALSE, uuids |-> 3, fallbacks |-> 1, llm_calls |-> 2]

\* _generate_learning_plan; p is the outcome of its LLM call.  raised: an exception
\* leaves the function (subject.title() on a value that is no string, or
\* LearningPlan(**plan) refusing a field that is no string).
GenerateLearningPlanD(session, p, u) ==
    IF p.kind = "parsed"
    THEN [session |-> [session EXCEPT !.learning_plan = p.plan, !.stage = "complete"],
          raised |-> FALSE, uuids |-> 0, fallbacks |-> 0, llm_calls |-> 1]
    ELSE LET plan == FallbackPlanD(session.profile, u)
         IN IF ~IsStr(plan.subject)
            THEN [session |-> session, raised |-> TRUE, uuids |-> 1, fallbacks |-> 1,
                  llm_calls |-> 1]
            ELSE IF ~IsStr(plan.difficulty_level) \/ ~IsStr(plan.learning_style)
            THEN [session |-> session, raised |-> TRUE, uuids |-> 3, fallbacks |-> 1,
                  llm_calls |-> 1]
            ELSE [session |-> [session EXCEPT !.learning_plan = plan, !.stage = "complete"],
                  raised |-> FALSE, uuids |-> 3, fallbacks |-> 1, llm_calls |-> 1]

\* the hours the regex (\d+)\s*hours? finds, "" if it finds none
HoursMatch(message_lower) == IF "10 hours" \in message_lower THEN "10" ELSE ""

\* f"{hours} hours per week"
HoursPerWeek(hours) == IF hours = "10" THEN "10 hours per week" ELSE "hours per week"

\* _extract_requirements_fallback
ExtractRequirementsFallback(raw_data, message) ==
    LET message_lower == LowerMsg(message)
        d1 == IF Falsy(Get(raw_data, "experience_level", ""))
              THEN IF HasAny(message_lower, {"beginner", "new", "start", "never"})
                     THEN SetKey(raw_data, "experience_level", "beginner")
                   ELSE IF HasAny(message_lower, {"intermediate", "some", "little"})
                     THEN SetKey(raw_data, "experience_level", "intermediate")
                   ELSE IF HasAny(message_lower, {"advanced", "experienced", "expert"})
                     THEN SetKey(raw_data, "experience_level", "advanced")
                   ELSE raw_data
              ELSE raw_data
        d2 == IF Falsy(Get(d1, "learning_style", ""))
              THEN IF HasAny(message_lower, {"visual", "videos", "watch"})
                     THEN SetKey(d1, "learning_style", "visual")
                   ELSE IF HasAny(message_lower, {"hands-on", "practice", "projects", "build"})
                     THEN SetKey(d1, "learning_style", "hands-on")
                   ELSE IF HasAny(message_lower, {"reading", "books", "text"})
                     THEN SetKey(d1, "learning_style", "reading")
                   ELSE SetKey(d1, "learning_style", "mixed")
              ELSE d1
    IN IF Falsy(Get(d2, "time_availability", "")) /\ HoursMatch(message_lower) # ""
       THEN SetKey(d2, "time_availability", HoursPerWeek(HoursMatch(message_lower)))
       ELSE d2

RequiredFieldsD == <<"subject", "experience_level", "learning_style", "time_availability">>

\* the required fields that are no key of raw_data, in order
Missing(raw_data) ==
    SelectSeq(RequiredFieldsD, LAMBDA field : field \notin DOMAIN raw_data)

\* the except branch of _handle_requirements_gathering; p is the outcome of the LLM
\* call _generate_learning_plan makes if it is reached
GatheringFallbackD(session, message, p, u) ==
    LET s1 == [session EXCEPT !.profile = ExtractRequirementsFallback(@, message)]
        missing == Missing(s1.profile)
    IN IF Len(missing) <= 1
       THEN LET Generated(gen) ==
                    [session |-> gen.session, message |-> PerfectD, raised |-> gen.raised,
                     uuids |-> gen.uuids, llm_calls |-> gen.llm_calls, generated |-> 1,
                     fallbacks |-> gen.fallbacks,
                     generations |-> <<Generation(p, gen)>>]
            IN Generated(GenerateLearningPlanD([s1 EXCEPT !.stage = "planning"], p, u))
       ELSE [session |-> s1, message |-> GetNextQuestion(missing[1]), raised |-> FALSE,
             uuids |-> 0, llm_calls |-> 0, generated |-> 0, fallbacks |-> 0,
             generations |-> <<>>]

\* _handle_requirements_gathering; llms are the outcomes of the LLM calls it makes
HandleGatheringD(session, message, llms, u) ==
    LET g == LlmAt(llms, 1)
    IN IF g.kind = "parsed"
       THEN LET s1 == IF g.data # EmptyDict
                        THEN [session EXCEPT !.profile = Update(@, g.data)] ELSE session
            IN IF g.ready
               THEN LET \* what follows _generate_learning_plan, gen being what it did
                        Generated(gen) ==
                            IF gen.raised
                            THEN [GatheringFallbackD(gen.session, message,
                                                     LlmAt(llms, 3), u + gen.uuids)
                                    EXCEPT !.uuids = @ + gen.uuids,
                                           !.llm_calls = @ + 1 + gen.llm_calls,
                                           !.generated = @ + 1,
                                           !.fallbacks = @ + gen.fallbacks,
                                           !.generations =
                                               <<Generation(LlmAt(llms, 2), gen)>> \o @]
                            ELSE [session |-> gen.session, message |-> ReadyD,
                                  raised |-> FALSE, uuids |-> gen.uuids,
                                  llm_calls |-> 1 + gen.llm_calls,
                                  generated |-> 1, fallbacks |-> gen.fallbacks,
                                  generations |-> <<Generation(LlmAt(llms, 2), gen)>>]
                    IN Generated(GenerateLearningPlanD([s1 EXCEPT !.stage = "planning"],
                                                       LlmAt(llms, 2), u))
               ELSE [session |-> s1, message |-> LlmContent, raised |-> FALSE,
                     uuids |-> 0, llm_calls |-> 1, generated |-> 0, fallbacks |-> 0,
                     generations |-> <<>>]
       ELSE LET f == GatheringFallbackD(session, message, LlmAt(llms, 2), u)
            IN [f EXCEPT !.llm_calls = @ + 1]

\* the handler call of process_message
RunHandlerD(session, message, llms, u) ==
    CASE session.stage = "initial" ->
           LET h == HandleInitialD(session, message, LlmAt(llms, 1))
           IN [session |-> h.session, message |-> h.message, raised |-> FALSE,
               uuids |-> 0, llm_calls |-> 1, generated |-> 0, fallbacks |-> 0,
               generations |-> <<>>]
      [] session.stage = "gathering" -> HandleGatheringD(session, message, llms, u)
      [] session.stage = "planning" ->
           [session |-> session, message |-> PreparingD, raised |-> FALSE,
            uuids |-> 0, llm_calls |-> 0, generated |-> 0, fallbacks |-> 0,
            generations |-> <<>>]
      [] OTHER ->
           [session |-> session, message |-> PlanReadyD, raised |-> FALSE,
            uuids |-> 0, llm_calls |-> 0, generated |-> 0, fallbacks |-> 0,
            generations |-> <<>>]

\* process_message: the store and what the call returns (or that it raised)
RunMessageD(ss, u, session_id, message, llms) ==
    LET g == GetOrCreateSession(ss, u, session_id)
        s0 == AppendHistory(g.sessions[g.id], "user", message)
        \* what follows the handler call, h being what the handler did
        Return(h) ==
            LET session == IF h.raised THEN h.session
                           ELSE AppendHistory(h.session, "ai", Reply(h.message))
            IN [sessions |-> [g.sessions EXCEPT ![g.id] = session],
                uuids |-> g.uuids + h.uuids,
                llm_calls |-> h.llm_calls,
                result |-> [raised |-> h.raised,
                            response |-> IF h.raised THEN {} ELSE Reply(h.message),
                            session_id |-> g.id,
                            stage |-> session.stage,
                            has_plan |-> session.learning_plan # None,
                            generated |-> h.generated,
                            fallbacks |-> h.fallbacks,
                            generations |-> h.generations,
                            llm_calls |-> h.llm_calls,
                            stage_before |-> s0.stage]]
    IN Return(RunHandlerD(s0, message, llms, g.uuids))

\* the LLM's answers to the conversation prompts and to the plan prompt
ConversationOutcomesD ==
    {LlmRaise, LlmUnparseable,
     LlmParsed("", FALSE, EmptyDict),
     LlmParsed("", TRUE, EmptyDict),
     LlmParsed("python", TRUE, EmptyDict),
     LlmParsed("", TRUE, [subject |-> "python", experience_level |-> NullValue]),
     LlmParsed("", TRUE, [subject |-> NullValue, experience_level |-> "beginner"])}
PlanOutcomesD == {LlmRaise, LlmUnparseable, LlmIncomplete, LlmPlan(3, 3), LlmPlan(0, 0)}
LlmScriptsD ==
    {<<>>} \cup {<<g>> : g \in ConversationOutcomesD}
           \cup {<<g, p>> : g \in ConversationOutcomesD, p \in PlanOutcomesD}
           \cup {<<g, p, q>> : g \in ConversationOutcomesD, p \in PlanOutcomesD, q \in PlanOutcomesD}
MessagesD == {{}, {"learn"}, {"beginner", "10 hours"}}

\* one process_message call handled on its own
ProcessMessageD(session_id, message, llms) ==
    /\ calls < MaxCalls
    /\ \E r \in {RunMessageD(sessions, uuids, session_id, message, llms)} :
          /\ r.llm_calls = Len(llms)
          /\ sessions' = r.sessions
          /\ uuids' = r.uuids
          /\ ret' = [result |-> r.result, session_id |-> session_id, message |-> message,
                     llms |-> llms]
    /\ calls' = calls + 1
    /\ UNCHANGED <<db, agent, pending>>

InitD ==
    /\ agent = "ai_planning_dict"
    /\ sessions = <<>>
    /\ uuids = 0
    /\ pending = <<>>
    /\ calls = 0
    /\ ret = NoReturn
    /\ db = EmptyDb

NextD ==
    /\ agent = "ai_planning_dict"
    /\ \E message \in MessagesD, llms \in LlmScriptsD :
          ProcessMessageD(StrId("s1"), message, llms)

SpecD == InitD /\ [][NextD]_vars

\* either planning agent, one message at a time
SpecPlanning == (InitA \/ InitD) /\ [][NextA \/ NextD]_vars

(***************************************************************************)
(* simple_planning_agent.py: the agent that works without an LLM.          *)
(***************************************************************************)
\* PlanningSession, a variant whose questions_asked starts one lower
NewSessionS_CountsLate(id) ==
    [session_id |-> id, stage |-> "initial", user_data |-> EmptyDict,
     conversation_history |-> <<>>, learning_plan |-> None, questions_asked |-> -1]

NewSessionS(id) ==
    [session_id |-> id, stage |-> "initial", user_data |-> EmptyDict,
     conversation_history |-> <<>>, learning_plan |-> None, questions_asked |-> 0]

\* get_or_create_session
GetOrCreateSessionS(ss, u, session_id) ==
    IF Truthy(session_id) /\ session_id \in DOMAIN ss
    THEN [sessions |-> ss, id |-> session_id, uuids |-> u]
    ELSE LET new_session_id == IF Truthy(session_id) THEN session_id ELSE UuidId(u + 1)
             drawn == IF Truthy(session_id) THEN u ELSE u + 1
         IN [sessions |-> [x \in DOMAIN ss \cup {new_session_id} |->
                              IF x = new_session_id THEN NewSessionS(new_session_id) ELSE ss[x]],
             id |-> new_session_id, uuids |-> drawn]

\* _generate_simple_plan
SimplePlan(user_data) ==
    LET subject == Get(user_data, "subject", "Learning")
        experience == Get(user_data, "experience", "beginner")
    IN [title |-> <<"Personalized", subject, "Learning Journey">>,
        description |-> <<"A comprehensive", experience, "-level learning plan for", subject>>,
        modules |->
          IF subject = "Generative AI"
          THEN << [id |-> "mod_1", title |-> <<"AI Fundamentals">>],
                  [id |-> "mod_2", title |-> <<"Working with AI Tools">>],
                  [id |-> "mod_3", title |-> <<"Building AI Applications">>] >>
          ELSE << [id |-> "mod_1", title |-> <<subject, "Fundamentals">>],
                  [id |-> "mod_2", title |-> <<"Intermediate", subject>>],
                  [id |-> "mod_3", title |-> <<"Advanced", subject>>] >>,
        kanban_board |->
          [todo |-> << [id |-> "task_1", module |-> "mod_1"],
                       [id |-> "task_2", module |-> "mod_2"],
                       [id |-> "task_3", module |-> "mod_3"] >>,
           in_progress |-> <<>>, completed |-> <<>>]]

\* the extraction of the GATHERING branch of process_message
ExtractS(user_data, message_lower) ==
    LET d1 == IF Has(message_lower, "beginner") \/ Has(message_lower, "new")
                 \/ Has(message_lower, "no experience")
                THEN SetKey(user_data, "experience", "beginner")
              ELSE IF Has(message_lower, "intermediate") \/ Has(message_lower, "some experience")
                THEN SetKey(user_data, "experience", "intermediate")
              ELSE IF Has(message_lower, "advanced") \/ Has(message_lower, "experienced")
                THEN SetKey(user_data, "experience", "advanced")
              ELSE user_data
        d2 == IF Has(message_lower, "hands-on") \/ Has(message_lower, "project")
                 \/ Has(message_lower, "build")
                THEN SetKey(d1, "learning_style", "hands-on")
              ELSE IF Has(message_lower, "visual") \/ Has(message_lower, "video")
                THEN SetKey(d1, "learning_style", "visual")
              ELSE IF Has(message_lower, "reading") \/ Has(message_lower, "text")
                THEN SetKey(d1, "learning_style", "reading")
              ELSE d1
        d3 == IF Has(message_lower, "month") \/ Has(message_lower, "weeks")
                THEN SetKey(d2, "timeline", "3 months") ELSE d2
    IN IF Has(message_lower, "10 hours") \/ Has(message_lower, "hour")
         THEN SetKey(d3, "time_commitment", "10 hours per week") ELSE d3

HelloS == "Hello! Welcome to VEDYA. I'm here to help you create a personalized learning plan. What subject would you like to learn?"
\* the opening of the plan message, the subject left out
PlanCreatedS == "Perfect! I've created your personalized learning plan."
PlanReadyS == "Your learning plan is ready! You can now start your learning journey."

\* the body of process_message between the two history appends
RespondS(session, message) ==
    LET message_lower == LowerMsg(message)
    IN CASE session.stage = "initial" ->
              IF Has(message_lower, "generative ai") \/ Has(message_lower, "gen ai")
                THEN [session |-> [session EXCEPT !.user_data = SetKey(@, "subject", "Generative AI"),
                                                  !.stage = "gathering"],
                      message |-> "Excellent! Generative AI is a fascinating field. What's your current experience level with AI or programming?"]
              ELSE IF Has(message_lower, "programming") \/ Has(message_lower, "coding")
                THEN [session |-> [session EXCEPT !.user_data = SetKey(@, "subject", "Programming"),
                                                  !.stage = "gathering"],
                      message |-> "Great choice! Programming opens up many opportunities. What's your current experience level?"]
              ELSE IF Has(message_lower, "data science")
                THEN [session |-> [session EXCEPT !.user_data = SetKey(@, "subject", "Data Science"),
                                                  !.stage = "gathering"],
                      message |-> "Data Science is an exciting field! What's your background with data and programming?"]
              ELSE [session |-> session, message |-> HelloS]
         [] session.stage = "gathering" ->
              LET s1 == [session EXCEPT !.questions_asked = @ + 1,
                                        !.user_data = ExtractS(@, message_lower)]
                  has_required == {"subject", "experience", "learning_style"}
                                     \subseteq DOMAIN s1.user_data
              IN IF has_required \/ s1.questions_asked >= 4
                 THEN [session |-> [s1 EXCEPT !.learning_plan = SimplePlan(s1.user_data),
                                              !.stage = "complete"],
                       message |-> PlanCreatedS]
                 ELSE [session |-> s1,
                       message |-> IF "experience" \notin DOMAIN s1.user_data
                                     THEN "What's your current experience level? Are you a complete beginner, have some experience, or consider yourself advanced?"
                                   ELSE IF "learning_style" \notin DOMAIN s1.user_data
                                     THEN "How do you prefer to learn? Through hands-on projects, visual content like videos, or reading materials?"
                                   ELSE "What timeline works for you? A few weeks for intensive learning or a few months for steady progress?"]
         [] OTHER -> [session |-> session, message |-> PlanReadyS]

MessagesS == {{}, {"programming"}, {"beginner"}, {"advanced"}, {"hands-on", "projects"}}

\* SimplePlanningAgent.process_message
ProcessMessageS(session_id, message) ==
    /\ calls < MaxCallsS
    /\ LET g == GetOrCreateSessionS(sessions, uuids, session_id)
           s0 == AppendHistory(g.sessions[g.id], "user", message)
       IN \E h \in {RespondS(s0, message)} :
          LET session == AppendHistory(h.session, "ai", Reply(h.message)) IN
          /\ sessions' = [g.sessions EXCEPT ![g.id] = session]
          /\ uuids' = g.uuids
          /\ ret' = [result |-> [response |-> Reply(h.message), session_id |-> g.id,
                                 stage |-> session.stage,
                                 questions_asked |-> session.questions_asked,
                                 plan_ready |-> session.stage = "complete"
                                                  /\ session.learning_plan # None],
                     session_id |-> session_id, message |-> message]
    /\ calls' = calls + 1
    /\ UNCHANGED <<db, agent, pending>>

InitS ==
    /\ agent = "simple_planning_agent"
    /\ sessions = <<>>
    /\ uuids = 0
    /\ pending = <<>>
    /\ calls = 0
    /\ ret = NoReturn
    /\ db = EmptyDb

NextS ==
    /\ agent = "simple_planning_agent"
    /\ \E message \in MessagesS : ProcessMessageS(StrId("s1"), message)

SpecS == InitS /\ [][NextS]_vars

\* the two agents that extract with unguarded assignments, one message at a time
SpecSlots == (InitA \/ InitS) /\ [][NextA \/ NextS]_vars

(***************************************************************************)
(* The guarded keyword extractors of professional_planning.py,             *)
(* conversational_chat.py and ai_planning_dict.py, applied to a session    *)
(* whose profile is already partly filled.                                 *)
(***************************************************************************)
\* int(...) and str(...) of the hour counts the messages carry
IntOf(digits) == IF digits = "10" THEN 10 ELSE 0
StrOf(n) == IF n = 10 THEN "10" ELSE "0"

\* ProfessionalPlanningAgent._extract_info_from_message, a variant whose
\* experience branch assigns without looking at the slot
ExtractInfoFromMessage_Unguarded(profile, message) ==
    LET message_lower == LowerMsg(message)
    IN IF HasAny(message_lower, {"beginner", "new", "never", "starting", "basic"})
         THEN [profile EXCEPT !.experience_level = "beginner"]
       ELSE IF HasAny(message_lower, {"intermediate", "some", "familiar", "bit of"})
         THEN [profile EXCEPT !.experience_level = "intermediate"]
       ELSE IF HasAny(message_lower, {"advanced", "experienced", "expert", "professional"})
         THEN [profile EXCEPT !.experience_level = "advanced"]
       ELSE profile

\* ProfessionalPlanningAgent._extract_info_from_message
ExtractInfoFromMessage(profile, message) ==
    LET message_lower == LowerMsg(message)
        p1 == IF Falsy(profile.experience_level)
              THEN IF HasAny(message_lower, {"beginner", "new", "never", "starting", "basic"})
                     THEN [profile EXCEPT !.experience_level = "beginner"]
                   ELSE IF HasAny(message_lower, {"intermediate", "some", "familiar", "bit of"})
                     THEN [profile EXCEPT !.experience_level = "intermediate"]
                   ELSE IF HasAny(message_lower, {"advanced", "experienced", "expert", "professional"})
                     THEN [profile EXCEPT !.experience_level = "advanced"]
                   ELSE profile
              ELSE profile
        p2 == IF Falsy(p1.learning_style)
              THEN IF HasAny(message_lower, {"hands-on", "project", "build", "practice", "doing"})
                     THEN [p1 EXCEPT !.learning_style = "hands-on"]
                   ELSE IF HasAny(message_lower, {"visual", "video", "watch", "see", "demo"})
                     THEN [p1 EXCEPT !.learning_style = "visual"]
                   ELSE IF HasAny(message_lower, {"reading", "text", "book", "article", "theory"})
                     THEN [p1 EXCEPT !.learning_style = "reading"]
                   ELSE p1
              ELSE p1
        p3 == IF Falsy(p2.timeline)
              THEN IF HasAny(message_lower, {"week", "weeks", "quickly", "fast", "asap"})
                     THEN [p2 EXCEPT !.timeline = "intensive"]
                   ELSE IF HasAny(message_lower, {"month", "months", "steady"})
                     THEN [p2 EXCEPT !.timeline = "regular"]
                   ELSE IF HasAny(message_lower, {"slow", "casual", "spare time", "whenever"})
                     THEN [p2 EXCEPT !.timeline = "flexible"]
                   ELSE p2
              ELSE p2
    IN IF Falsy(p3.time_commitment) /\ HoursMatch(message_lower) # ""
       THEN [p3 EXCEPT !.time_commitment =
                          HoursPerWeek(StrOf(IntOf(HoursMatch(message_lower))))]
       ELSE p3

\* ConversationalChatSystem._extract_requirements_from_message
ExtractRequirementsFromMessage(req, message) ==
    LET message_lower == LowerMsg(message)
        r1 == IF Falsy(req.difficulty_level) /\ Falsy(req.experience_level)
              THEN IF HasAny(message_lower, {"new to this", "beginner", "never", "starting",
                                             "complete beginner"})
                     THEN [req EXCEPT !.difficulty_level = "beginner", !.experience_level = "none"]
                   ELSE IF HasAny(message_lower, {"used chatgpt", "used ai", "familiar with ai",
                                                  "some experience"})
                     THEN [req EXCEPT !.difficulty_level = "beginner", !.experience_level = "some"]
                   ELSE IF HasAny(message_lower, {"can code", "programming", "developer",
                                                  "experienced"})
                     THEN [req EXCEPT !.difficulty_level = "intermediate",
                                      !.experience_level = "experienced"]
                   ELSE IF HasAny(message_lower, {"already in tech", "advanced", "expert"})
                     THEN [req EXCEPT !.difficulty_level = "advanced",
                                      !.experience_level = "experienced"]
                   ELSE req
              ELSE req
        r2 == IF Falsy(r1.learning_style)
              THEN IF HasAny(message_lower, {"hands-on", "projects", "build", "practical"})
                     THEN [r1 EXCEPT !.learning_style = "hands-on"]
                   ELSE IF HasAny(message_lower, {"step-by-step", "tutorials", "structured",
                                                  "guided"})
                     THEN [r1 EXCEPT !.learning_style = "visual"]
                   ELSE IF HasAny(message_lower, {"theory", "concepts", "understand deeply",
                                                  "reading"})
                     THEN [r1 EXCEPT !.learning_style = "reading"]
                   ELSE IF HasAny(message_lower, {"mixed", "combination", "everything"})
                     THEN [r1 EXCEPT !.learning_style = "mixed"]
                   ELSE r1
              ELSE r1
    IN IF Falsy(r2.timeline)
       THEN IF HasAny(message_lower, {"quick", "fast", "weeks", "month"})
              THEN [r2 EXCEPT !.timeline = "4-6 weeks"]
            ELSE IF HasAny(message_lower, {"slowly", "months", "long term"})
              THEN [r2 EXCEPT !.timeline = "3-6 months"]
            ELSE r2
       ELSE r2

\* the three extractors that look at a slot before they assign it
Extractors == {"professional_planning", "conversational_chat", "ai_planning_dict"}

Extract(extractor, profile, message) ==
    CASE extractor = "professional_planning" -> ExtractInfoFromMessage(profile, message)
      [] extractor = "conversational_chat" -> ExtractRequirementsFromMessage(profile, message)
      [] extractor = "ai_planning_dict" -> ExtractRequirementsFallback(profile, message)

\* UserProfile objects, each slot None or already filled
ProfilesP ==
    [subject : {"Python"}, experience_level : {NullValue, "advanced"},
     learning_style : {NullValue, "visual"}, timeline : {NullValue, "flexible"},
     time_commitment : {NullValue, "5 hours per week"}]

\* UserRequirements objects, each slot None or already filled
RequirementsC ==
    [subject : {"Python"}, difficulty_level : {NullValue, "advanced"},
     experience_level : {NullValue, "experienced"}, learning_style : {NullValue, "reading"},
     timeline : {NullValue, "3-6 months"}]

\* raw_data dictionaries, each key absent, empty or already filled
RawDataD ==
    LET keys == {"experience_level", "learning_style", "time_availability"}
        given(k) == CASE k = "experience_level" -> "advanced"
                      [] k = "learning_style" -> "visual"
                      [] k = "time_availability" -> "5 hours per week"
    IN { [k \in present |-> IF k \in filled THEN given(k) ELSE ""] :
            present \in SUBSET keys, filled \in SUBSET keys }

ProfilesX(extractor) ==
    CASE extractor = "professional_planning" -> ProfilesP
      [] extractor = "conversational_chat" -> RequirementsC
      [] extractor = "ai_planning_dict" -> RawDataD

WordsX == {"Beginner", "advanced", "hands-on", "visual", "weeks", "months", "10 hours"}
MessagesX == {{}} \cup {{w1, w2} : w1 \in WordsX, w2 \in WordsX}

\* one call of the extractor on the session
ApplyExtractor(message) ==
    /\ calls < MaxCalls
    /\ sessions' = [id \in DOMAIN sessions |->
                       [sessions[id] EXCEPT !.profile = Extract(agent, @, message)]]
    /\ ret' = [message |-> message, before |-> sessions[StrId("s1")].profile]
    /\ calls' = calls + 1
    /\ UNCHANGED <<db, agent, uuids, pending>>

InitX ==
    /\ agent \in Extractors
    /\ \E profile \in ProfilesX(agent) :
          sessions = [id \in {StrId("s1")} |->
                         [session_id |-> id, stage |-> "gathering", profile |-> profile]]
    /\ uuids = 0
    /\ pending = <<>>
    /\ calls = 0
    /\ ret = NoReturn
    /\ db = EmptyDb

NextX == \E message \in MessagesX : ApplyExtractor(message)

SpecX == InitX /\ [][NextX]_vars

(***************************************************************************)
(* Assessment grading: AssessmentAgent of vedya_agents.py, whose            *)
(* grade_assessment and _check_answer are repeated line for line in         *)
(* AssessmentMethods of assessment_methods.py.                              *)
(*                                                                         *)
(* A Python value is a tagged record; a str is its sequence of characters. *)
(***************************************************************************)
MaxAnswers == 2
MaxChars == 3

IntV(n) == [t |-> "int", n |-> n, b |-> FALSE, s |-> <<>>]
BoolV(b) == [t |-> "bool", n |-> 0, b |-> b, s |-> <<>>]
StrV(s) == [t |-> "str", n |-> 0, b |-> FALSE, s |-> s]
NoneV == [t |-> "none", n |-> 0, b |-> FALSE, s |-> <<>>]

\* str(n) of a one-digit int
Digit(n) == <<"0", "1", "2", "3", "4", "5", "6", "7", "8", "9">>[n + 1]

\* str(v)
StrOfValue(v) ==
    CASE v.t = "str" -> v.s
      [] v.t = "int" -> <<Digit(v.n)>>
      [] v.t = "bool" -> IF v.b THEN <<"T", "r", "u", "e">> ELSE <<"F", "a", "l", "s", "e">>
      [] OTHER -> <<"N", "o", "n", "e">>

\* str.lower() on one character
LowerChar(c) ==
    CASE c = "A" -> "a" [] c = "D" -> "d" [] c = "F" -> "f" [] c = "G" -> "g"
      [] c = "N" -> "n" [] c = "T" -> "t" [] OTHER -> c

\* str.lower()
LowerStr(s) == [i \in 1..Len(s) |-> LowerChar(s[i])]

\* str.strip()
RECURSIVE StripLeft(_)
StripLeft(s) == IF s # <<>> /\ Head(s) = " " THEN StripLeft(Tail(s)) ELSE s
RECURSIVE StripRight(_)
StripRight(s) ==
    IF s # <<>> /\ s[Len(s)] = " " THEN StripRight(SubSeq(s, 1, Len(s) - 1)) ELSE s
Strip(s) == StripRight(StripLeft(s))

\* `a in b` for two strs
InStr(a, b) ==
    \E k \in 0..(Len(b) - Len(a)) : SubSeq(b, k + 1, k + Len(a)) = a

\* a question dictionary
Question(id, type, options, correct_answer) ==
    [id |-> id, type |-> type, options |-> options, correct_answer |-> correct_answer]

\* _check_answer, a variant whose short_answer branch wants the two strings equal
CheckAnswer_ExactOnly(user_answer, question) ==
    IF question.type = "short_answer"
    THEN Strip(LowerStr(StrOfValue(user_answer)))
            = Strip(LowerStr(StrOfValue(question.correct_answer)))
    ELSE StrOfValue(user_answer) = StrOfValue(question.correct_answer)

\* _check_answer
CheckAnswer(user_answer, question) ==
    LET question_type == question.type
        correct_answer == question.correct_answer
    IN CASE question_type = "multiple_choice" ->
              IF user_answer.t \in {"int", "bool"}
              THEN LET index == IF user_answer.t = "bool"
                                THEN (IF user_answer.b THEN 1 ELSE 0) ELSE user_answer.n
                   IN IF 0 <= index /\ index < Len(question.options)
                      THEN question.options[index + 1] = correct_answer
                      ELSE FALSE
              ELSE user_answer = correct_answer
         [] question_type = "true_false" ->
              IF user_answer.t = "bool"
              THEN \/ user_answer.b /\ correct_answer = StrV(<<"T", "r", "u", "e">>)
                   \/ ~user_answer.b /\ correct_answer = StrV(<<"F", "a", "l", "s", "e">>)
              ELSE StrV(StrOfValue(user_answer)) = correct_answer
         [] question_type = "short_answer" ->
              LET user_answer_lower == Strip(LowerStr(StrOfValue(user_answer)))
                  correct_answer_lower == Strip(LowerStr(StrOfValue(correct_answer)))
              IN \/ user_answer_lower = correct_answer_lower
                 \/ InStr(user_answer_lower, correct_answer_lower)
                 \/ InStr(correct_answer_lower, user_answer_lower)
         [] OTHER -> StrOfValue(user_answer) = StrOfValue(correct_answer)

\* next((q for q in questions if q.get("id") == q_id), None), as the index of
\* the first match, 0 if there is none
MatchingQuestion(questions, q_id) ==
    LET hits == {i \in 1..Len(questions) : questions[i].id = q_id}
    IN IF hits = {} THEN 0 ELSE CHOOSE i \in hits : \A j \in hits : i <= j

\* the loop of grade_assessment over user_answers, from the k-th answer on;
\* acc holds correct_count and question_results
RECURSIVE GradeLoop(_, _, _, _)
GradeLoop(user_answers, questions, k, acc) ==
    IF k > Len(user_answers) THEN acc
    ELSE LET q_id == user_answers[k].id
             answer == user_answers[k].answer
             m == MatchingQuestion(questions, q_id)
         IN IF m # 0
            THEN LET correct == CheckAnswer(answer, questions[m])
                 IN GradeLoop(user_answers, questions, k + 1,
                       [correct_count |-> acc.correct_count + (IF correct THEN 1 ELSE 0),
                        question_results |->
                           Append(acc.question_results,
                                  [id |-> q_id, user_answer |-> answer, correct |-> correct,
                                   correct_answer |-> questions[m].correct_answer])])
            ELSE GradeLoop(user_answers, questions, k + 1, acc)

RECURSIVE Gcd(_, _)
Gcd(a, b) == IF b = 0 THEN a ELSE Gcd(b, a % b)

\* the percentage, a variant that knows only all or nothing
Percentage_AllOrNothing(correct_count, total) ==
    IF correct_count >= total THEN <<100, 1>> ELSE <<0, 1>>

\* (correct_count / len(questions)) * 100, the float kept as the fraction
\* <<numerator, denominator>> in lowest terms
Percentage(correct_count, total) ==
    LET g == Gcd(correct_count * 100, total)
    IN <<(correct_count * 100) \div g, total \div g>>

\* grade_assessment, a variant that passes only above passing_score
GradeAssessment_StrictlyAbove(user_answers, assessment) ==
    LET questions == Get(assessment, "questions", <<>>)
        passing_score == Get(assessment, "passing_score", Len(questions) \div 2)
        graded == GradeLoop(user_answers, questions, 1,
                            [correct_count |-> 0, question_results |-> <<>>])
    IN [success |-> TRUE,
        passed |-> graded.correct_count > passing_score,
        score |-> graded.correct_count,
        total |-> Len(questions),
        score_percentage |-> IF questions # <<>>
                               THEN Percentage(graded.correct_count, Len(questions))
                               ELSE <<0, 1>>,
        passing_score |-> passing_score,
        feedback |-> "You're making progress with",
        question_results |-> graded.question_results]

\* grade_assessment
GradeAssessment(user_answers, assessment) ==
    LET questions == Get(assessment, "questions", <<>>)
        passing_score == Get(assessment, "passing_score", Len(questions) \div 2)
        graded == GradeLoop(user_answers, questions, 1,
                            [correct_count |-> 0, question_results |-> <<>>])
        correct_count == graded.correct_count
        passed == correct_count >= passing_score
    IN [success |-> TRUE,
        passed |-> passed,
        score |-> correct_count,
        total |-> Len(questions),
        score_percentage |-> IF questions # <<>>
                               THEN Percentage(correct_count, Len(questions))
                               ELSE <<0, 1>>,
        passing_score |-> passing_score,
        feedback |-> IF passed
                       THEN IF correct_count = Len(questions)
                              THEN "Excellent work! You've demonstrated complete mastery of"
                              ELSE "Good job! You've shown a solid understanding of"
                       ELSE "You're making progress with",
        question_results |-> graded.question_results]

\* the strs of at most n characters over an alphabet
RECURSIVE StringsUpTo(_, _)
StringsUpTo(alphabet, n) ==
    IF n = 0 THEN {<<>>}
    ELSE LET shorter == StringsUpTo(alphabet, n - 1)
         IN shorter \cup {Append(t, c) : t \in shorter, c \in alphabet}

ShortChars == {"a", "A", " "}
GradientDescent ==
    <<"g", "r", "a", "d", "i", "e", "n", "t", " ", "d", "e", "s", "c", "e", "n", "t">>
GradientDescentAlgorithm ==
    <<"G", "r", "a", "d", "i", "e", "n", "t", " ", "D", "e", "s", "c", "e", "n", "t", " ",
      "A", "l", "g", "o", "r", "i", "t", "h", "m">>
\* the answers a learner submits to one question, and the expected answers
ShortAnswers == StringsUpTo(ShortChars, MaxChars) \cup {GradientDescent, GradientDescentAlgorithm}
TrueStr == <<"T", "r", "u", "e">>
SubmittedValues ==
    {StrV(t) : t \in ShortAnswers} \cup {NoneV, IntV(0), IntV(1), BoolV(TRUE), BoolV(FALSE),
                                        StrV(TrueStr)}
CheckedQuestions ==
    {Question("q3", "short_answer", <<>>, StrV(t)) : t \in ShortAnswers}
      \cup {Question("q1", "multiple_choice", <<StrV(<<"a">>), StrV(<<"A">>)>>, StrV(<<"A">>)),
            Question("q2", "true_false", <<StrV(TrueStr), StrV(<<"F", "a", "l", "s", "e">>)>>,
                     StrV(TrueStr)),
            Question("q4", "essay", <<>>, NoneV)}

\* the assessments that are graded: none to three questions, passing_score given or not
QuestionsG ==
    LET q1 == Question("q1", "multiple_choice", <<StrV(<<"a">>), StrV(<<"A">>)>>, StrV(<<"A">>))
        q2 == Question("q2", "true_false", <<StrV(TrueStr), StrV(<<"F", "a", "l", "s", "e">>)>>,
                       StrV(TrueStr))
        q3 == Question("q3", "short_answer", <<>>, StrV(<<"A", "a">>))
    IN {<<>>, <<q1>>, <<q1, q2>>, <<q1, q2, q3>>}
AssessmentsG ==
    {EmptyDict} \cup {[questions |-> qs] : qs \in QuestionsG}
      \cup {[questions |-> qs, passing_score |-> n] : qs \in QuestionsG, n \in 0..3}
UserAnswerG ==
    [id : {"q1", "q2", "q3", "q9"},
     answer : {StrV(<<"a">>), StrV(<<"A">>), StrV(TrueStr)}]
RECURSIVE SeqsUpTo(_, _)
SeqsUpTo(S, n) ==
    IF n = 0 THEN {<<>>}
    ELSE LET shorter == SeqsUpTo(S, n - 1)
         IN shorter \cup {Append(t, x) : t \in shorter, x \in S}
UserAnswersG == SeqsUpTo(UserAnswerG, MaxAnswers)

\* the calls that are made: grade_assessment(user_answers, assessment) or
\* _check_answer(user_answer, question)
CallsG ==
    {[op |-> "grade_assessment", user_answers |-> user_answers, assessment |-> assessment] :
        user_answers \in UserAnswersG, assessment \in AssessmentsG}
      \cup {[op |-> "_check_answer", user_answer |-> user_answer, question |-> question] :
              user_answer \in SubmittedValues, question \in CheckedQuestions}

\* the waiting call of grade_assessment is made
GradeAssessmentCall ==
    /\ pending # <<>>
    /\ pending[1].op = "grade_assessment"
    /\ ret' = [op |-> "grade_assessment", user_answers |-> pending[1].user_answers,
               assessment |-> pending[1].assessment,
               result |-> GradeAssessment(pending[1].user_answers, pending[1].assessment)]
    /\ pending' = <<>>
    /\ UNCHANGED <<db, agent, sessions, uuids, calls>>

\* the waiting call of _check_answer is made
CheckAnswerCall ==
    /\ pending # <<>>
    /\ pending[1].op = "_check_answer"
    /\ ret' = [op |-> "_check_answer", user_answer |-> pending[1].user_answer,
               question |-> pending[1].question,
               result |-> CheckAnswer(pending[1].user_answer, pending[1].question)]
    /\ pending' = <<>>
    /\ UNCHANGED <<db, agent, sessions, uuids, calls>>

InitG ==
    /\ agent = "assessment"
    /\ sessions = <<>>
    /\ uuids = 0
    /\ \E call \in CallsG : pending = <<call>>
    /\ calls = 0
    /\ ret = NoReturn
    /\ db = EmptyDb

NextG == GradeAssessmentCall \/ CheckAnswerCall

SpecG == InitG /\ [][NextG]_vars

(***************************************************************************)
(* Assessment creation: AssessmentAgent.create_assessment_for_concept of   *)
(* vedya_agents.py, which keeps a cache, and the same method of             *)
(* AssessmentMethods in assessment_methods.py, which keeps none.            *)
(*                                                                         *)
(* The LLM's answer is text: prose or nothing around a piece of JSON that   *)
(* may stand in a ```json fence.                                            *)
(***************************************************************************)
LlmRaiseQ == [kind |-> "raise", prose |-> FALSE, fenced |-> FALSE, json |-> "none"]
LlmText(prose, fenced, json) ==
    [kind |-> "text", prose |-> prose, fenced |-> fenced, json |-> json]

\* the pieces of JSON: none at all, an object cut off before its closing brace,
\* an array, an object without questions, an object with questions
JsonPieces == {"none", "malformed", "array", "object", "assessment"}
HasBraces(json) == json \in {"object", "assessment"}

\* the two re.search calls: the string handed to json.loads, as the piece of
\* JSON and whether prose still surrounds it
JsonStr(response_text) ==
    IF response_text.fenced
    THEN [json |-> response_text.json, prose |-> FALSE]
    ELSE IF HasBraces(response_text.json)
    THEN [json |-> response_text.json, prose |-> FALSE]
    ELSE [json |-> response_text.json, prose |-> response_text.prose]

\* json.loads: the kind of value, or "JSONDecodeError"
JsonLoads(json_str) ==
    IF json_str.prose \/ json_str.json \in {"none", "malformed"}
    THEN "JSONDecodeError"
    ELSE json_str.json

\* the questions an LLM writes
LlmQuestions ==
    << Question("q1", "short_answer", <<>>, StrV(GradientDescentAlgorithm)) >>

\* _create_fallback_assessment
CreateFallbackAssessment(concept, subject, difficulty) ==
    [questions |->
       << [id |-> "q1", type |-> "multiple_choice",
           options |-> << <<"A key concept in", subject>>,
                          <<"An unrelated topic to", subject>>,
                          <<"A historical figure in", subject>>,
                          <<"A tool used only in advanced", subject>> >>,
           correct_answer |-> <<"A key concept in", "{subject}">>],
          [id |-> "q2", type |-> "true_false",
           options |-> << <<"True">>, <<"False">> >>,
           correct_answer |-> <<"True">>] >>,
     passing_score |-> 1,
     concept_assessed |-> concept,
     difficulty |-> difficulty]

\* f"{concept}_{subject}_{difficulty}"
CacheKey(concept, subject, difficulty) == <<concept, "_", subject, "_", difficulty>>

\* the part of create_assessment_for_concept after the cache lookup; llm is what
\* the LLM call does
GenerateAssessment(concept, subject, difficulty, learning_style, llm) ==
    IF llm.kind = "raise"
    THEN [success |-> FALSE, error |-> "str(e)",
          assessment |-> CreateFallbackAssessment(concept, subject, difficulty)]
    ELSE LET parsed == JsonLoads(JsonStr(llm))
         IN IF parsed = "JSONDecodeError"
            THEN [success |-> FALSE, error |-> "Failed to parse assessment JSON",
                  assessment |-> CreateFallbackAssessment(concept, subject, difficulty)]
            ELSE IF parsed # "assessment"
            THEN [success |-> FALSE, error |-> "Invalid assessment structure",
                  assessment |-> CreateFallbackAssessment(concept, subject, difficulty)]
            ELSE [success |-> TRUE, error |-> "",
                  assessment |-> [questions |-> LlmQuestions, concept |-> concept,
                                  subject |-> subject, difficulty |-> difficulty,
                                  learning_style |-> learning_style]]

ConceptsQ == {"loops", "recursion"}
DifficultiesQ == {"beginner", "advanced"}
LlmOutcomesQ ==
    {LlmRaiseQ} \cup {LlmText(prose, fenced, json) :
                        prose \in BOOLEAN, fenced \in BOOLEAN, json \in JsonPieces}

\* AssessmentAgent.create_assessment_for_concept (vedya_agents.py)
CreateAssessmentCached(concept, difficulty, llm) ==
    /\ agent = "vedya_agents"
    /\ calls < MaxCalls
    /\ LET cache_key == CacheKey(concept, "Python", difficulty)
       IN IF cache_key \in DOMAIN sessions
          THEN /\ ret' = [op |-> "create_assessment_for_concept", concept |-> concept,
                          difficulty |-> difficulty, llm |-> llm, llm_called |-> FALSE,
                          result |-> [success |-> TRUE, error |-> "",
                                      assessment |-> sessions[cache_key]]]
               /\ UNCHANGED sessions
          ELSE \E r \in {GenerateAssessment(concept, "Python", difficulty, "visual", llm)} :
               /\ ret' = [op |-> "create_assessment_for_concept", concept |-> concept,
                          difficulty |-> difficulty, llm |-> llm, llm_called |-> TRUE,
                          result |-> r]
               /\ sessions' = [k \in DOMAIN sessions \cup {cache_key} |->
                                  IF k = cache_key THEN r.assessment ELSE sessions[k]]
    /\ calls' = calls + 1
    /\ UNCHANGED <<db, agent, uuids, pending>>

\* AssessmentMethods.create_assessment_for_concept (assessment_methods.py)
CreateAssessment(concept, difficulty, llm) ==
    /\ agent = "assessment_methods"
    /\ calls < MaxCalls
    /\ ret' = [op |-> "create_assessment_for_concept", concept |-> concept,
               difficulty |-> difficulty, llm |-> llm, llm_called |-> TRUE,
               result |-> GenerateAssessment(concept, "Python", difficulty, "visual", llm)]
    /\ calls' = calls + 1
    /\ UNCHANGED <<db, agent, sessions, uuids, pending>>

InitQ ==
    /\ agent \in {"vedya_agents", "assessment_methods"}
    /\ sessions = <<>>
    /\ uuids = 0
    /\ pending = <<>>
    /\ calls = 0
    /\ ret = NoReturn
    /\ db = EmptyDb

NextQ ==
    \E concept \in ConceptsQ, difficulty \in DifficultiesQ, llm \in LlmOutcomesQ :
       \/ CreateAssessmentCached(concept, difficulty, llm)
       \/ CreateAssessment(concept, difficulty, llm)

SpecQ == InitQ /\ [][NextQ]_vars

(***************************************************************************)
(* vedya_agents.py with overlapping calls of create_assessment_for_concept: *)
(* a call that misses the cache is suspended at `await self.llm.ainvoke`   *)
(* and other calls run until it resumes.                                   *)
(***************************************************************************)
\* create_assessment_for_concept from the call to the cache hit or the LLM call
BeginQ(concept, difficulty) ==
    /\ agent = "vedya_agents"
    /\ calls < MaxCalls
    /\ Size(pending) < MaxPending
    /\ LET cache_key == CacheKey(concept, "Python", difficulty)
       IN IF cache_key \in DOMAIN sessions
          THEN /\ ret' = [op |-> "create_assessment_for_concept", concept |-> concept,
                          difficulty |-> difficulty, llm |-> None, llm_called |-> FALSE,
                          result |-> [success |-> TRUE, error |-> "",
                                      assessment |-> sessions[cache_key]]]
               /\ pending' = pending
          ELSE /\ pending' = SetKey(pending, calls + 1,
                                    [concept |-> concept, difficulty |-> difficulty])
               /\ ret' = ret
    /\ calls' = calls + 1
    /\ UNCHANGED <<db, agent, sessions, uuids>>

\* the LLM call of call r returns or raises; the call stores what it made of the
\* answer under its cache key and returns it
ResumeQ(r, llm) ==
    /\ agent = "vedya_agents"
    /\ r \in DOMAIN pending
    /\ LET q == pending[r]
           cache_key == CacheKey(q.concept, "Python", q.difficulty)
       IN \E g \in {GenerateAssessment(q.concept, "Python", q.difficulty, "visual", llm)} :
          /\ ret' = [op |-> "create_assessment_for_concept", concept |-> q.concept,
                     difficulty |-> q.difficulty, llm |-> llm, llm_called |-> TRUE,
                     result |-> g]
          /\ sessions' = [k \in DOMAIN sessions \cup {cache_key} |->
                             IF k = cache_key THEN g.assessment ELSE sessions[k]]
    /\ pending' = [x \in DOMAIN pending \ {r} |-> pending[x]]
    /\ UNCHANGED <<db, agent, uuids, calls>>

InitConcQ ==
    /\ agent = "vedya_agents"
    /\ sessions = <<>>
    /\ uuids = 0
    /\ pending = <<>>
    /\ calls = 0
    /\ ret = NoReturn
    /\ db = EmptyDb

NextConcQ ==
    \/ \E concept \in ConceptsQ, difficulty \in DifficultiesQ : BeginQ(concept, difficulty)
    \/ \E r \in DOMAIN pending, llm \in LlmOutcomesQ : ResumeQ(r, llm)

SpecConcQ == InitConcQ /\ [][NextConcQ]_vars

(***************************************************************************)
(* api_server.py: GET /learning-plan/{session_id}, served while chat        *)
(* requests of the planning agent are handled and suspended.                *)
(***************************************************************************)
\* AIPoweredPlanningAgent.get_learning_plan
GetLearningPlanA(ss, session_id) ==
    IF session_id \in DOMAIN ss THEN ss[session_id].learning_plan ELSE None

\* the endpoint get_learning_plan: the HTTP status and the data of the answer
GetLearningPlanEndpoint(ss, session_id) ==
    LET plan_data == GetLearningPlanA(ss, session_id)
    IN IF plan_data = None
       THEN [status |-> 404, data |-> None]
       ELSE [status |-> 200, data |-> plan_data]

\* one GET /learning-plan/{session_id}
GetLearningPlanCall(session_id) ==
    /\ \E r \in {GetLearningPlanEndpoint(sessions, session_id)} :
          ret' = [op |-> "get_learning_plan", session_id |-> session_id,
                  status |-> r.status, data |-> r.data]
    /\ UNCHANGED <<db, agent, sessions, uuids, pending, calls>>

\* the session ids of the path: the session in use and one that was never used
PathIds == {StrId("s1"), StrId("s2")}

NextApiA ==
    \/ NextConcA
    \/ \E session_id \in PathIds : GetLearningPlanCall(session_id)

SpecApiA == InitA /\ [][NextApiA]_vars

(***************************************************************************)
(* api_server.py: POST /chat/stream.                                       *)
(*                                                                         *)
(* The generator generate_response is run one step at a time: pending      *)
(* holds its frame between two yields, ret.events what the response has    *)
(* carried so far, with the calls of the save methods recorded in between. *)
(* The characters of the reply are an input: the planning agent's model    *)
(* keeps a reply as one text, the generator only iterates over it.         *)
(***************************************************************************)
\* the replies that are streamed: an empty one, one character, a few characters
ResponseTexts == {<<>>, <<"?">>, <<"O", "k">>, <<"H", "i", "!">>}
\* the messages of the client: the subject, then the two other requirements
StreamMessagesA == {{"Python"}, {"beginner", "hands-on"}}

\* the reply of chat_endpoint when process_message has raised
FallbackInitialChat ==
    "I'm here to help you create a personalized learning plan. What would you like to learn?"

\* startup_event sets user_service or the application does not start
UserServiceStarted == TRUE

\* the keys of the metadata dict the handler returns
PlanMetadataA ==
    {"plan_generated", "plan_id", "show_action_button", "action_button_text", "action_type"}
MetadataA(handler, llm, plan_ready) ==
    CASE handler = "_handle_complete_stage" -> {"plan_complete"}
      [] handler = "_handle_plan_generation" -> PlanMetadataA
      [] llm = "raise" -> {"error"}
      [] handler = "_handle_initial_conversation" -> {"subject_identified"}
      [] plan_ready -> PlanMetadataA
      [] OTHER -> {"requirements_gathered"}

\* one line "data: {...}" of the response, or one call of a save method
Event(type, content, accumulated) ==
    [type |-> type, content |-> content, accumulated |-> accumulated]
Plain(type) == Event(type, <<>>, <<>>)
SaveMethods == {"save_learning_plan_for_conversation", "save_learning_plan_for_clerk_user"}

\* accumulated += char, a variant that keeps the last character only
Accumulate_LastOnly(accumulated, char) == char

\* accumulated += char
Accumulate(accumulated, char) == accumulated \o char

\* what ret records of a stream
Stream(events, text, plan_ready) ==
    [op |-> "chat_stream", events |-> events, text |-> text, plan_ready |-> plan_ready]

\* the frame of the generator between two yields
Frame(pc, text, i, accumulated, metadata, plan_ready, session_id) ==
    [pc |-> pc, text |-> text, i |-> i, accumulated |-> accumulated, metadata |-> metadata,
     plan_ready |-> plan_ready, session_id |-> session_id]

\* from the request to the metadata event; raised: process_message raises in its handler
StreamBegin(session_id, message, llm, text, raised) ==
    /\ agent = "chat_stream_endpoint"
    /\ calls < MaxCalls
    /\ pending = <<>>
    /\ \E b \in {BeginMessageA(sessions, uuids, session_id, message)} :
          IF raised
          THEN /\ sessions' = b.sessions
               /\ uuids' = b.uuids
               /\ pending' = <<>>
               /\ ret' = Stream(<<Plain("error")>>, <<>>, FALSE)
          ELSE \E f \in {FinishMessageA(b.sessions, b.uuids, b.id, b.handler, message, llm)} :
                  /\ sessions' = f.sessions
                  /\ uuids' = f.uuids
                  /\ pending' = <<Frame("content", text, 1, <<>>,
                                        MetadataA(b.handler, llm, f.result.plan_ready),
                                        f.result.plan_ready, f.result.session_id)>>
                  /\ ret' = Stream(<<Plain("metadata")>>, text, f.result.plan_ready)
    /\ calls' = calls + 1
    /\ UNCHANGED <<db, agent>>

\* one turn of the loop over stream_text_chunks; raised: the await in it raises
StreamContent(raised) ==
    /\ pending # <<>>
    /\ pending[1].pc = "content"
    /\ pending[1].i <= Len(pending[1].text)
    /\ LET frame == pending[1]
           char == <<frame.text[frame.i]>>
           accumulated == Accumulate(frame.accumulated, char)
       IN IF raised
          THEN /\ pending' = <<>>
               /\ ret' = [ret EXCEPT !.events = Append(@, Plain("error"))]
          ELSE /\ pending' = <<[frame EXCEPT !.i = @ + 1, !.accumulated = accumulated]>>
               /\ ret' = [ret EXCEPT !.events = Append(@, Event("content", char, accumulated))]
    /\ UNCHANGED <<db, agent, sessions, uuids, calls>>

\* after the loop: if metadata, the final_metadata event
StreamFinalMetadata ==
    /\ pending # <<>>
    /\ pending[1].pc = "content"
    /\ pending[1].i > Len(pending[1].text)
    /\ pending' = <<[pending[1] EXCEPT !.pc = "save"]>>
    /\ ret' = IF pending[1].metadata # {}
              THEN [ret EXCEPT !.events = Append(@, Plain("final_metadata"))]
              ELSE ret
    /\ UNCHANGED <<db, agent, sessions, uuids, calls>>

SaveOutcomes == {"saved", "not saved", "not saved, clerk_user_id", "raise"}

\* the calls of the save methods, whose exceptions are swallowed
SaveCalls(ss, frame, outcome) ==
    IF frame.plan_ready /\ UserServiceStarted /\ Truthy(frame.session_id)
    THEN IF GetLearningPlanA(ss, frame.session_id) # None
         THEN IF outcome = "not saved, clerk_user_id"
              THEN <<Plain("save_learning_plan_for_conversation"),
                     Plain("save_learning_plan_for_clerk_user")>>
              ELSE <<Plain("save_learning_plan_for_conversation")>>
         ELSE <<>>
    ELSE <<>>

\* the rows the save methods insert into learning_plans: one when
\* save_learning_plan_for_conversation finds the conversation's user, one when it does
\* not and save_learning_plan_for_clerk_user finds the user of clerk_user_id
SavedRows(ss, plan_ready, session_id, outcome) ==
    IF plan_ready /\ UserServiceStarted /\ Truthy(session_id)
          /\ GetLearningPlanA(ss, session_id) # None
          /\ outcome \in {"saved", "not saved, clerk_user_id"}
    THEN <<[conversation_id |-> session_id,
            plan_id |-> GetLearningPlanA(ss, session_id).plan_id,
            method |-> IF outcome = "saved" THEN "save_learning_plan_for_conversation"
                       ELSE "save_learning_plan_for_clerk_user"]>>
    ELSE <<>>

\* the save of the plan, before complete is sent
StreamSave(outcome) ==
    /\ pending # <<>>
    /\ pending[1].pc = "save"
    /\ pending' = <<[pending[1] EXCEPT !.pc = "complete"]>>
    /\ ret' = [ret EXCEPT !.events = @ \o SaveCalls(sessions, pending[1], outcome)]
    /\ db' = [db EXCEPT !.learning_plans =
                 @ \o SavedRows(sessions, pending[1].plan_ready, pending[1].session_id,
                                outcome)]
    /\ UNCHANGED <<agent, sessions, uuids, calls>>

\* the complete event, the end of the generator
StreamComplete ==
    /\ pending # <<>>
    /\ pending[1].pc = "complete"
    /\ pending' = <<>>
    /\ ret' = [ret EXCEPT !.events = Append(@, Plain("complete"))]
    /\ UNCHANGED <<db, agent, sessions, uuids, calls>>

InitStream ==
    /\ agent = "chat_stream_endpoint"
    /\ sessions = <<>>
    /\ uuids = 0
    /\ pending = <<>>
    /\ calls = 0
    /\ ret = NoReturn
    /\ db = EmptyDb

\* one client of one session, one stream at a time
NextStream ==
    \/ \E message \in StreamMessagesA, llm \in LlmOutcomesA, text \in ResponseTexts,
          raised \in BOOLEAN :
          StreamBegin(StrId("s1"), message, llm, text, raised)
    \/ \E raised \in BOOLEAN : StreamContent(raised)
    \/ StreamFinalMetadata
    \/ \E outcome \in SaveOutcomes : StreamSave(outcome)
    \/ StreamComplete

SpecStream == InitStream /\ [][NextStream]_vars

\* POST /chat: chat_endpoint from the request to its ChatResponse; raised:
\* process_message raises in its handler, and the fixed reply is sent
ChatEndpoint(session_id, message, llm, raised, outcome) ==
    /\ agent = "chat_stream_endpoint"
    /\ calls < MaxCalls
    /\ pending = <<>>
    /\ \E b \in {BeginMessageA(sessions, uuids, session_id, message)} :
          IF raised
          THEN /\ sessions' = b.sessions
               /\ uuids' = IF Truthy(session_id) THEN b.uuids ELSE b.uuids + 1
               /\ ret' = [op |-> "chat", response |-> Reply(FallbackInitialChat),
                          session_id |-> IF Truthy(session_id) THEN session_id
                                         ELSE UuidId(b.uuids + 1),
                          plan_ready |-> FALSE]
               /\ UNCHANGED db
          ELSE \E f \in {FinishMessageA(b.sessions, b.uuids, b.id, b.handler, message, llm)} :
                  /\ sessions' = f.sessions
                  /\ uuids' = f.uuids
                  /\ ret' = [op |-> "chat", response |-> f.result.response,
                             session_id |-> f.result.session_id,
                             plan_ready |-> f.result.plan_ready]
                  /\ db' = [db EXCEPT !.learning_plans =
                               @ \o SavedRows(f.sessions, f.result.plan_ready,
                                              f.result.session_id, outcome)]
    /\ calls' = calls + 1
    /\ UNCHANGED <<agent, pending>>

\* one client of one session, sending its messages to /chat or to /chat/stream
NextChat ==
    \/ NextStream
    \/ \E message \in StreamMessagesA, llm \in LlmOutcomesA, raised \in BOOLEAN,
          outcome \in SaveOutcomes :
          ChatEndpoint(StrId("s1"), message, llm, raised, outcome)

SpecChat == InitStream /\ [][NextChat]_vars

(***************************************************************************)
(* api_server.py: POST /teaching/execute-code.                             *)
(*                                                                         *)
(* What a subprocess.run call does is an input: the process exits with a   *)
(* code, runs into the 15 s timeout, or cannot be started.                  *)
(***************************************************************************)
Exited(code) == [kind |-> "exit", code |-> code]
TimedOut == [kind |-> "TimeoutExpired", code |-> 0]
NotStarted == [kind |-> "OSError", code |-> 0]
ProcessOutcomes == {Exited(0), Exited(1), TimedOut, NotStarted}

\* (request.get("language") or "python").strip().lower()
LanguageOf(field) ==
    CASE field = NullValue -> "python"
      [] field = "" -> "python"
      [] field = " Python " -> "python"
      [] field = "JAVA" -> "java"
      [] field = "  " -> ""
      [] OTHER -> field

\* code.strip()
StripCode(code) == IF code \in {"", "  ", NullValue} THEN "" ELSE code

Supported == {"python", "java", "c", "cpp", "javascript"}
Compiled == {"java", "c", "cpp"}
Compiler(language) ==
    CASE language = "java" -> "javac" [] language = "c" -> "gcc" [] OTHER -> "g++"
Runner(language) ==
    CASE language = "python" -> "python3" [] language = "java" -> "java"
      [] language = "javascript" -> "node" [] OTHER -> "out"

\* what a function call comes to: a returned dictionary or a raised exception;
\* ran lists the processes that were started, in order
ReturnedE(success, exit_code, stderr, ran) ==
    [raised |-> "", success |-> success, exit_code |-> exit_code, stderr |-> stderr,
     ran |-> ran]
RaisedE(exception, ran) ==
    [raised |-> exception, success |-> FALSE, exit_code |-> 0, stderr |-> "", ran |-> ran]

\* the final subprocess.run of a branch and the return statement after it
RunProgram(language, run, ran) ==
    IF run.kind = "exit"
    THEN ReturnedE(run.code = 0, run.code, "<stderr>", Append(ran, Runner(language)))
    ELSE RaisedE(run.kind, Append(ran, Runner(language)))

\* _run_code_subprocess; comp and run are what the compiler and the program do
RunCodeSubprocess(language, code, comp, run) ==
    IF language \notin Supported
    THEN ReturnedE(FALSE, -1, "Unsupported language", <<>>)
    ELSE IF language \in Compiled
    THEN IF comp.kind # "exit"
         THEN RaisedE(comp.kind, <<Compiler(language)>>)
         ELSE IF comp.code # 0
         THEN ReturnedE(FALSE, comp.code, "<stderr>", <<Compiler(language)>>)
         ELSE RunProgram(language, run, <<Compiler(language)>>)
    ELSE RunProgram(language, run, <<>>)

\* execute_code, a variant without the except clause for the timeout
ExecuteCode_TimeoutEscapes(request, comp, run) ==
    LET language == LanguageOf(request.language)
        code == IF request.code = NullValue THEN "" ELSE request.code
    IN IF StripCode(code) = ""
       THEN ReturnedE(FALSE, -1, "No code to run.", <<>>)
       ELSE LET r == RunCodeSubprocess(language, code, comp, run)
            IN IF r.raised \in {"", "TimeoutExpired"} THEN r
               ELSE ReturnedE(FALSE, -1, "str(e)", r.ran)

\* execute_code
ExecuteCode(request, comp, run) ==
    LET language == LanguageOf(request.language)
        code == IF request.code = NullValue THEN "" ELSE request.code
    IN IF StripCode(code) = ""
       THEN ReturnedE(FALSE, -1, "No code to run.", <<>>)
       ELSE LET r == RunCodeSubprocess(language, code, comp, run)
            IN IF r.raised = "" THEN r
               ELSE IF r.raised = "TimeoutExpired"
               THEN ReturnedE(FALSE, -1, "Run timed out (max 15s).", r.ran)
               ELSE ReturnedE(FALSE, -1, "str(e)", r.ran)

RequestsE ==
    [language : {NullValue, "  ", " Python ", "python", "JAVA", "c", "cpp", "javascript", "ruby"},
     code : {NullValue, "", "  ", "print(1+1)"}]

\* the waiting request is served
ExecuteCodeCall ==
    /\ pending # <<>>
    /\ ret' = [op |-> "execute_code", request |-> pending[1].request,
               comp |-> pending[1].comp, run |-> pending[1].run,
               result |-> ExecuteCode(pending[1].request, pending[1].comp, pending[1].run)]
    /\ pending' = <<>>
    /\ UNCHANGED <<db, agent, sessions, uuids, calls>>

InitE ==
    /\ agent = "api_server"
    /\ sessions = <<>>
    /\ uuids = 0
    /\ \E request \in RequestsE, comp \in ProcessOutcomes, run \in ProcessOutcomes :
          pending = <<[request |-> request, comp |-> comp, run |-> run]>>
    /\ calls = 0
    /\ ret = NoReturn
    /\ db = EmptyDb

NextE == ExecuteCodeCall

SpecE == InitE /\ [][NextE]_vars

(***************************************************************************)
(* conversational_chat.py: ConversationalChatSystem, one message at a time.*)
(*                                                                         *)
(* A session's conversation_history is kept as the sequence of its         *)
(* senders, a reply as its first words, a plan's plan_id without its time. *)
(***************************************************************************)
MaxCallsC == 18

\* ConversationStage, in the order of its members
StagesC ==
    <<"greeting", "requirements_gathering", "plan_presentation", "plan_approval", "teaching",
      "assessment", "completed">>
StageRankC(stage) == CHOOSE i \in 1..Len(StagesC) : StagesC[i] = stage

\* UserRequirements()
NewRequirementsC ==
    [subject |-> NullValue, difficulty_level |-> NullValue, experience_level |-> NullValue,
     learning_style |-> NullValue, timeline |-> NullValue]

\* ConversationSession(session_id, GREETING, UserRequirements())
NewSessionC(id) ==
    [session_id |-> id, stage |-> "greeting", requirements |-> NewRequirementsC,
     learning_plan |-> None, current_module_index |-> 0, current_lesson_step |-> 0,
     conversation_history |-> <<>>]

\* get_or_create_session
GetOrCreateSessionC(ss, u, session_id) ==
    IF Truthy(session_id) /\ session_id \in DOMAIN ss
    THEN [sessions |-> ss, id |-> session_id, uuids |-> u]
    ELSE LET new_session_id == IF Truthy(session_id) THEN session_id ELSE UuidId(u + 1)
             drawn == IF Truthy(session_id) THEN u ELSE u + 1
         IN [sessions |-> [x \in DOMAIN ss \cup {new_session_id} |->
                              IF x = new_session_id THEN NewSessionC(new_session_id) ELSE ss[x]],
             id |-> new_session_id, uuids |-> drawn]

\* what a handler hands back: the session, the dict it returns by its keys and the
\* first words of its text, the sessions it has stored, the uuids it has drawn
HandledC(session, keys, text, metadata, stored) ==
    [session |-> session, keys |-> keys, text |-> text, metadata |-> metadata,
     stored |-> stored]
MessageC(session, text, metadata) ==
    HandledC(session, {"message", "metadata"}, text, metadata, <<>>)

\* the subject _handle_greeting detects, in the order of learning_topics
DetectedSubjectC(message_lower) ==
    IF HasAny(message_lower, {"generative ai", "gen ai", "generative artificial intelligence"})
      THEN "generative ai"
    ELSE IF HasAny(message_lower, {"data science", "data analysis", "machine learning", "ml"})
      THEN "data science"
    ELSE IF HasAny(message_lower, {"programming", "coding", "code", "python", "javascript",
                                   "java"})
      THEN "programming"
    ELSE IF HasAny(message_lower, {"web dev", "web development", "html", "css", "react",
                                   "frontend"})
      THEN "web development"
    ELSE IF HasAny(message_lower, {"ai", "artificial intelligence", "machine learning"})
      THEN "artificial intelligence"
    ELSE NullValue

\* _handle_greeting
HandleGreetingC(session, message) ==
    LET detected_subject == DetectedSubjectC(LowerMsg(message))
    IN IF ~Falsy(detected_subject)
       THEN MessageC([session EXCEPT !.requirements.subject = detected_subject,
                                     !.stage = "requirements_gathering"],
                     "Excellent choice!", {"subject_detected"})
       ELSE MessageC([session EXCEPT !.stage = "requirements_gathering"],
                     "Hello! Welcome to VEDYA", {"next_expected"})

LearningModuleC(title, key_concepts) ==
    [title |-> title, key_concepts |-> key_concepts, completed |-> FALSE]

\* the modules _create_learning_plan builds
ModulesC(req) ==
    IF ~Falsy(req.subject) /\ Has({req.subject}, "generative ai")
    THEN IF req.experience_level = "none"
         THEN << LearningModuleC(<<"AI Fundamentals & Tools">>,
                    <<"What is AI & Machine Learning", "ChatGPT & Claude Deep Dive",
                      "Prompt Engineering Basics", "AI Ethics & Limitations">>),
                 LearningModuleC(<<"Building with AI APIs">>,
                    <<"OpenAI API Setup", "Building Chat Applications",
                      "Image Generation with DALL-E", "Text Analysis & Summarization">>),
                 LearningModuleC(<<"Advanced AI Applications">>,
                    <<"Fine-tuning Models", "RAG (Retrieval Augmented Generation)",
                      "AI Agents & Workflows", "Deployment & Scaling">>) >>
         ELSE << LearningModuleC(<<"AI Architecture & APIs">>,
                    <<"Transformer Architecture", "OpenAI vs Anthropic vs Open Source",
                      "API Integration Patterns", "Cost Optimization">>),
                 LearningModuleC(<<"Advanced AI Techniques">>,
                    <<"RAG Implementation", "Vector Databases", "AI Agents & Tool Use",
                      "Fine-tuning Strategies">>),
                 LearningModuleC(<<"Production AI Systems">>,
                    <<"MLOps for LLMs", "Monitoring & Evaluation", "Security & Privacy",
                      "Enterprise Integration">>) >>
    ELSE LET subject_name == IF Falsy(req.subject) THEN "Your Topic" ELSE req.subject
         IN << LearningModuleC(<<subject_name, "Foundations">>,
                  <<"Fundamentals", "Key Principles", "Essential Tools", "Best Practices">>),
               LearningModuleC(<<"Practical", subject_name>>,
                  <<"Advanced Concepts", "Project Work", "Problem Solving",
                    "Industry Applications">>),
               LearningModuleC(<<"Mastering", subject_name>>,
                  <<"Expert Techniques", "Optimization", "Advanced Applications",
                    "Career Development">>) >>

\* x or default
OrC(x, default) == IF Falsy(x) THEN default ELSE x

\* _create_learning_plan
CreateLearningPlanC(session) ==
    LET req == session.requirements
        plan == [plan_id |-> session.session_id,
                 title |-> <<"Master", OrC(req.subject, "Your Chosen Topic")>>,
                 modules |-> ModulesC(req),
                 total_duration |-> OrC(req.timeline, "5-10 weeks"),
                 difficulty |-> OrC(req.difficulty_level, "beginner"),
                 learning_style |-> OrC(req.learning_style, "hands-on"),
                 approved |-> FALSE]
    IN MessageC([session EXCEPT !.learning_plan = plan, !.stage = "plan_approval"],
                "Your Personalized Plan", {"plan_created", "awaiting_approval"})

\* _handle_requirements_gathering
HandleRequirementsGatheringC(session, message) ==
    LET req == ExtractRequirementsFromMessage(session.requirements, message)
        s1 == [session EXCEPT !.requirements = req]
    IN IF ~Falsy(req.subject) /\ ~Falsy(req.difficulty_level)
             /\ (~Falsy(req.learning_style) \/ ~Falsy(req.experience_level))
       THEN CreateLearningPlanC([s1 EXCEPT !.stage = "plan_presentation"])
       ELSE IF Falsy(req.difficulty_level) /\ Falsy(req.experience_level)
       THEN MessageC(s1, IF Has({OrC(req.subject, "")}, "generative ai")
                         THEN "Perfect! Generative AI is the future!"
                         ELSE "Great choice! What's your experience level",
                     {"gathering_requirements"})
       ELSE IF Falsy(req.learning_style)
       THEN MessageC(s1, "How do you like to learn best?", {"gathering_requirements"})
       ELSE CreateLearningPlanC([s1 EXCEPT !.stage = "plan_presentation"])

\* what a handler does when it raises: the session as the handler left it
RaisedC(session, error) == HandledC(session, {}, error, {}, <<>>)

\* _handle_plan_approval (and _handle_plan_presentation, which calls it)
HandlePlanApprovalC(session, message) ==
    LET message_lower == LowerMsg(message)
    IN IF HasAny(message_lower, {"approve", "start", "begin", "yes", "looks good", "perfect"})
       THEN IF session.learning_plan = None
            THEN RaisedC(session, "AttributeError")
            ELSE MessageC([session EXCEPT !.learning_plan.approved = TRUE,
                                          !.stage = "teaching",
                                          !.current_module_index = 0,
                                          !.current_lesson_step = 0],
                          "Excellent! Let's Start Learning!",
                          {"teaching_started", "current_module"})
       ELSE IF HasAny(message_lower, {"change", "modify", "different", "adjust"})
       THEN MessageC(session, "I'd be happy to modify your learning plan!",
                     {"modification_requested"})
       ELSE MessageC(session, "I want to make sure this learning plan is perfect for you!",
                     {"awaiting_clear_decision"})

\* _handle_course_completion
HandleCourseCompletionC(session) ==
    MessageC([session EXCEPT !.stage = "completed"],
             "Congratulations! You've Completed Your Learning Journey!", {"course_completed"})

\* _advance_lesson, a variant that keeps the lesson step when it moves to the next module
AdvanceLessonC_KeepsStep(session) ==
    LET modules == session.learning_plan.modules
        index == session.current_module_index
        step == session.current_lesson_step + 1
        s1 == [session EXCEPT !.current_lesson_step = step]
    IN IF step >= Len(modules[index + 1].key_concepts)
       THEN LET s2 == [s1 EXCEPT !.learning_plan.modules[index + 1].completed = TRUE]
            IN IF index >= Len(modules) - 1
               THEN HandleCourseCompletionC([s2 EXCEPT !.stage = "completed"])
               ELSE MessageC([s2 EXCEPT !.current_module_index = index + 1],
                             "Module Complete!", {"module_completed", "new_module_started"})
       ELSE MessageC(s1, "Moving on to", {"concept_advanced"})

\* _advance_lesson
AdvanceLessonC(session) ==
    LET modules == session.learning_plan.modules
        index == session.current_module_index
        step == session.current_lesson_step + 1
        s1 == [session EXCEPT !.current_lesson_step = step]
    IN IF step >= Len(modules[index + 1].key_concepts)
       THEN LET s2 == [s1 EXCEPT !.learning_plan.modules[index + 1].completed = TRUE]
            IN IF index >= Len(modules) - 1
               THEN HandleCourseCompletionC([s2 EXCEPT !.stage = "completed"])
               ELSE MessageC([s2 EXCEPT !.current_module_index = index + 1,
                                        !.current_lesson_step = 0],
                             "Module Complete!", {"module_completed", "new_module_started"})
       ELSE MessageC(s1, "Moving on to", {"concept_advanced"})

\* _answer_teaching_question after its LLM call
AnswerTeachingQuestionC(session, llm) ==
    IF session.learning_plan = None
    THEN MessageC(session, "I'm here to help! What would you like to know?", {"generic_help"})
    ELSE IF llm = "raise"
    THEN MessageC(session, "That's a great question", {"fallback_answer"})
    ELSE MessageC(session, LlmContent, {"question_answered"})

\* _handle_teaching
HandleTeachingC(session, message, llm) ==
    LET message_lower == LowerMsg(message)
    IN IF session.learning_plan = None \/ session.learning_plan.modules = <<>>
       THEN MessageC(session, "Something went wrong with your learning plan. Let's restart!",
                     {"error"})
       ELSE IF HasAny(message_lower, {"continue", "next", "proceed", "move on"})
       THEN AdvanceLessonC(session)
       ELSE IF HasAny(message_lower, {"what", "how", "why", "explain", "help", "?"})
       THEN AnswerTeachingQuestionC(session, llm)
       ELSE IF HasAny(message_lower, {"got it", "understand", "clear", "makes sense", "ready"})
       THEN MessageC(session, "Great! I'm glad that makes sense.", {"practice_provided"})
       ELSE MessageC(session, "I'm here to help you master", {"teaching_guidance"})

\* _handle_assessment
HandleAssessmentC(session) ==
    IF session.learning_plan = None
    THEN RaisedC([session EXCEPT !.stage = "completed"], "AttributeError")
    ELSE HandleCourseCompletionC(session)

NewJourneyWords == {"new", "start", "another", "different", "learn"}

\* _handle_completed, a variant that starts the new journey in the session itself
HandleCompletedC_Restarts(session, message, u) ==
    IF HasAny(LowerMsg(message), NewJourneyWords)
    THEN MessageC([session EXCEPT !.stage = "greeting", !.requirements = NewRequirementsC],
                  "Excellent! I'm excited to help you learn something new!",
                  {"new_journey_started"})
    ELSE MessageC(session, "I'm here whenever you're ready", {"awaiting_new_topic"})

\* _handle_completed: the new journey is a new session under a new uuid, and the dict
\* that is returned for it has the keys of process_message's result
HandleCompletedC(session, message, u) ==
    IF HasAny(LowerMsg(message), NewJourneyWords)
    THEN HandledC(session, {"response", "session_id", "stage", "metadata"},
                  "Excellent! I'm excited to help you learn something new!",
                  {"new_journey_started"}, <<NewSessionC(UuidId(u + 1))>>)
    ELSE MessageC(session, "I'm here whenever you're ready", {"awaiting_new_topic"})

\* the handler process_message routes to
RouteC(session, message, llm, u) ==
    CASE session.stage = "greeting" -> HandleGreetingC(session, message)
      [] session.stage = "requirements_gathering" ->
            HandleRequirementsGatheringC(session, message)
      [] session.stage = "plan_presentation" -> HandlePlanApprovalC(session, message)
      [] session.stage = "plan_approval" -> HandlePlanApprovalC(session, message)
      [] session.stage = "teaching" -> HandleTeachingC(session, message, llm)
      [] session.stage = "assessment" -> HandleAssessmentC(session)
      [] OTHER -> HandleCompletedC(session, message, u)

\* the store with the sessions a handler has stored
StoreC(ss, stored) ==
    [x \in DOMAIN ss \cup {stored[i].session_id : i \in DOMAIN stored} |->
        IF \E i \in DOMAIN stored : stored[i].session_id = x
        THEN stored[CHOOSE i \in DOMAIN stored : stored[i].session_id = x]
        ELSE ss[x]]

\* process_message: response["message"] raises KeyError when the handler's dict has no
\* such key, after the handler has done its work
ProcessMessageC(session_id, message, llm) ==
    /\ agent = "conversational_chat"
    /\ calls < MaxCallsC
    /\ \E g \in {GetOrCreateSessionC(sessions, uuids, session_id)} :
       \E h \in {RouteC([g.sessions[g.id] EXCEPT !.conversation_history = Append(@, "user")],
                        message, llm, g.uuids)} :
          LET raised == "message" \notin h.keys
              session == IF raised THEN h.session
                         ELSE [h.session EXCEPT !.conversation_history = Append(@, "ai")]
          IN /\ sessions' = StoreC([g.sessions EXCEPT ![g.id] = session], h.stored)
             /\ uuids' = g.uuids + Len(h.stored)
             /\ ret' = [op |-> "process_message", session_id |-> g.id, message |-> message,
                        before |-> g.sessions[g.id].stage, raised |-> raised,
                        result |-> IF raised THEN None
                                   ELSE [response |-> h.text, session_id |-> g.id,
                                         stage |-> session.stage, metadata |-> h.metadata]]
    /\ calls' = calls + 1
    /\ UNCHANGED <<db, agent, pending>>

\* what the client types: a subject, the requirements, the commands, small talk
MessagesC ==
    {{"Python"}, {"beginner"}, {"hands-on"}, {"start learning"}, {"continue"}, {"modify"},
     {"what"}, {"hello"}}

InitC ==
    /\ agent = "conversational_chat"
    /\ sessions = <<>>
    /\ uuids = 0
    /\ pending = <<>>
    /\ calls = 0
    /\ ret = NoReturn
    /\ db = EmptyDb

\* one client talking to one session, one message at a time
NextC ==
    \E message \in MessagesC, llm \in LlmOutcomesA : ProcessMessageC(StrId("s1"), message, llm)

SpecC == InitC /\ [][NextC]_vars

(***************************************************************************)
(* user_service.py: UserService.create_user_from_clerk.                    *)
(*                                                                         *)
(* Every statement runs on its own connection without a transaction, so a  *)
(* row is in the table as soon as its INSERT has returned.  Which database *)
(* call raises, and what send_welcome_email does, are inputs.              *)
(***************************************************************************)
DbFaults == {"none", "connect", "select", "insert", "close"}
MailOutcomes == {"sent", "not sent", "raise"}

\* SELECT * FROM users WHERE clerk_user_id = $1 OR email = $2 (fetchrow: the first row)
ExistingUser(users, clerk_user_id, email) ==
    LET found == {i \in DOMAIN users :
                     users[i].clerk_user_id = clerk_user_id \/ users[i].email = email}
    IN IF found = {} THEN None ELSE users[CHOOSE i \in found : \A j \in found : i <= j]

\* INSERT INTO users ... RETURNING id
InsertUser(users, clerk_user_id, email, name) ==
    Append(users, [id |-> Len(users) + 1, clerk_user_id |-> clerk_user_id, email |-> email,
                   name |-> name])

Failure(users, error) == [users |-> users, result |-> [success |-> FALSE, error |-> error]]
Success(users, user_id, message) ==
    [users |-> users, result |-> [success |-> TRUE, user_id |-> user_id, message |-> message]]

\* create_user_from_clerk, a variant whose welcome e-mail is sent outside the inner try
CreateUserFromClerk_MailEscapes(users, clerk_user_id, email, name, fault, mail) ==
    IF fault \in {"connect", "select"} THEN Failure(users, fault)
    ELSE LET existing_user == ExistingUser(users, clerk_user_id, email)
         IN IF existing_user # None
            THEN IF fault = "close" THEN Failure(users, fault)
                 ELSE Success(users, existing_user.id, "User already exists")
            ELSE IF fault = "insert" THEN Failure(users, fault)
            ELSE LET inserted == InsertUser(users, clerk_user_id, email, name)
                 IN IF fault = "close" THEN Failure(inserted, fault)
                    ELSE IF mail = "raise" THEN Failure(inserted, "mail")
                    ELSE Success(inserted, Len(inserted), "User created successfully")

\* create_user_from_clerk: the users table afterwards and the dict that is returned
CreateUserFromClerk(users, clerk_user_id, email, name, fault, mail) ==
    IF fault \in {"connect", "select"} THEN Failure(users, fault)
    ELSE LET existing_user == ExistingUser(users, clerk_user_id, email)
         IN IF existing_user # None
            THEN IF fault = "close" THEN Failure(users, fault)
                 ELSE Success(users, existing_user.id, "User already exists")
            ELSE IF fault = "insert" THEN Failure(users, fault)
            ELSE LET inserted == InsertUser(users, clerk_user_id, email, name)
                 IN IF fault = "close" THEN Failure(inserted, fault)
                    ELSE Success(inserted, Len(inserted), "User created successfully")

ClerkUserIds == {"user_1", "user_2"}
Emails == {"a@example.com", "b@example.com"}
Names == {NullValue, "Ann"}

\* one call of create_user_from_clerk
CreateUserFromClerkCall(clerk_user_id, email, name, fault, mail) ==
    /\ agent = "user_service"
    /\ calls < MaxCalls
    /\ \E r \in {CreateUserFromClerk(db.users, clerk_user_id, email, name, fault, mail)} :
          /\ db' = [db EXCEPT !.users = r.users]
          /\ ret' = [op |-> "create_user_from_clerk", clerk_user_id |-> clerk_user_id,
                     email |-> email, fault |-> fault, mail |-> mail, result |-> r.result]
    /\ calls' = calls + 1
    /\ UNCHANGED <<agent, sessions, uuids, pending>>

InitU ==
    /\ agent = "user_service"
    /\ sessions = <<>>
    /\ uuids = 0
    /\ pending = <<>>
    /\ calls = 0
    /\ ret = NoReturn
    /\ db = EmptyDb

NextU ==
    \E clerk_user_id \in ClerkUserIds, email \in Emails, name \in Names, fault \in DbFaults,
       mail \in MailOutcomes :
       CreateUserFromClerkCall(clerk_user_id, email, name, fault, mail)

SpecU == InitU /\ [][NextU]_vars

(***************************************************************************)
(* Properties of ai_planning_agent.py                                      *)
(***************************************************************************)
\* the session a call finds: the stored one, or the one get_or_create_session makes
PreSession(id) == IF id \in DOMAIN sessions THEN sessions[id] ELSE NewSession(id)

FallbackOfA(handler) ==
    IF handler = "_handle_initial_conversation" THEN FallbackInitialA ELSE FallbackGatheringA

\* C2: once a session's learning_plan is set, its plan_id never changes, also when
\* two requests for the session are suspended at the LLM call of
\* _handle_requirements_gathering and resume one after the other.
C2_PlanNeverReplaced ==
    [][\A id \in DOMAIN sessions :
          sessions[id].learning_plan # None =>
             sessions'[id].learning_plan.plan_id = sessions[id].learning_plan.plan_id]_vars

C4_Step ==
    LET id == ret'.result.session_id
        pre == PreSession(id)
        post == sessions'[id]
        fallback == FallbackOfA(ret'.handler)
    IN (ret'.llm = "raise" /\ pre.stage \in {"initial", "gathering"}) =>
          /\ ret'.result.response = Reply(fallback)
          /\ post.stage = pre.stage
          /\ post.profile = pre.profile
          /\ post.learning_plan = pre.learning_plan
          /\ post.conversation_history =
                pre.conversation_history \o
                   << [sender |-> "user", message |-> ret'.message],
                      [sender |-> "ai", message |-> Reply(fallback)] >>

\* C4: when the LLM call raises during process_message for a session in INITIAL or
\* GATHERING, the call returns the handler's fixed fallback reply and the session's
\* stage, profile and learning_plan are as before the call; the history grows by
\* one user entry and one ai entry.
C4_LlmFailureKeepsSession == [][C4_Step]_vars

\* a call to a session in GATHERING whose LLM call raised has returned
C4_Witness ==
    /\ ret # NoReturn
    /\ ret.llm = "raise"
    /\ ret.handler = "_handle_requirements_gathering"
    /\ ret.result.stage = "gathering"

C5_Step ==
    LET sid == ret'.session_id
        id == ret'.result.session_id
    IN /\ DOMAIN sessions \subseteq DOMAIN sessions'
       /\ \A x \in DOMAIN sessions \ {id} : sessions'[x] = sessions[x]
       /\ (Truthy(sid) /\ sid \notin DOMAIN sessions) =>
             /\ id = sid
             /\ DOMAIN sessions' = DOMAIN sessions \cup {sid}
       /\ ~Truthy(sid) =>
             /\ id.kind = "uuid"
             /\ id \notin DOMAIN sessions
             /\ DOMAIN sessions' = DOMAIN sessions \cup {id}
       /\ sid \notin DOMAIN sessions =>
             /\ ret'.handler = RouteA("initial")
             /\ Len(sessions'[id].conversation_history) = 2
             /\ sessions'[id].session_id = id
       /\ sid \in DOMAIN sessions =>
             /\ id = sid
             /\ DOMAIN sessions' = DOMAIN sessions
             /\ ret'.handler = RouteA(sessions[sid].stage)
             /\ Len(sessions'[id].conversation_history) =
                   Len(sessions[id].conversation_history) + 2
             /\ SubSeq(sessions'[id].conversation_history, 1,
                       Len(sessions[id].conversation_history)) =
                   sessions[id].conversation_history
             /\ \A k \in DOMAIN sessions[id].profile : k \in DOMAIN sessions'[id].profile

\* C5 (amended): a message carrying a non-empty session id that is not in the store
\* creates a session in INITIAL stored under exactly that id; a message with no id or
\* with the empty string as id creates one under a freshly generated id; a message
\* with a known id reuses the stored session without resetting its stage, profile or
\* history; no operation removes a session from the store.
C5_SessionStore == [][C5_Step]_vars

\* C5 as stated: every message carrying a session id (a string) that is not in the
\* store creates a session stored under exactly that id.
C5_AsStated ==
    [][(ret'.session_id.kind = "str" /\ ret'.session_id \notin DOMAIN sessions) =>
          /\ ret'.result.session_id = ret'.session_id
          /\ ret'.session_id \in DOMAIN sessions']_vars

\* the store holds a session under a client's id that has served two messages, and
\* one under a generated id
C5_Witness ==
    /\ StrId("s1") \in DOMAIN sessions
    /\ Len(sessions[StrId("s1")].conversation_history) >= 4
    /\ \E id \in DOMAIN sessions : id.kind = "uuid"

C6_Step ==
    LET id == ret'.result.session_id
    IN (id \in DOMAIN sessions /\ sessions[id].stage = "complete") =>
          /\ ret'.result.response = Reply(CompleteAckA)
          /\ sessions'[id].stage = sessions[id].stage
          /\ sessions'[id].profile = sessions[id].profile
          /\ sessions'[id].learning_plan = sessions[id].learning_plan

\* C6: every message sent to a session whose stage is COMPLETE returns the same fixed
\* acknowledgment text and leaves the session's stage, profile and learning_plan
\* unchanged.
C6_CompleteIsStatic == [][C6_Step]_vars

\* a message to a session in COMPLETE has been answered
C6_Witness ==
    /\ ret # NoReturn
    /\ ret.handler = "_handle_complete_stage"
    /\ ret.result.stage = "complete"

\* the user messages in the history of a session
UserMessagesA(session) ==
    {i \in DOMAIN session.conversation_history :
        session.conversation_history[i].sender = "user"}

\* C29: when process_message requests that carry the same previously unknown session id
\* run concurrently, exactly one session is created for the id, every request works on
\* that session, and the user message of every request is in its history: the session
\* is never created anew, so its history holds one user message per request begun.
C29_OneSessionForOneId ==
    (agent = "ai_planning_agent" /\ calls > 0) =>
        /\ DOMAIN sessions = {StrId("s1")}
        /\ sessions[StrId("s1")].session_id = StrId("s1")
        /\ Cardinality(UserMessagesA(sessions[StrId("s1")])) = calls
        /\ \A r \in DOMAIN pending :
              /\ pending[r].id = StrId("s1")
              /\ \E i \in UserMessagesA(sessions[StrId("s1")]) :
                    sessions[StrId("s1")].conversation_history[i].message = pending[r].message

\* two requests for the id, the first sent while the id was unknown, are both suspended
\* at their LLM calls, and the session holds the user messages of both
C29_Witness ==
    /\ agent = "ai_planning_agent"
    /\ calls = 2
    /\ Size(pending) = 2
    /\ \A r \in DOMAIN pending : pending[r].id = StrId("s1")
    /\ Cardinality(UserMessagesA(sessions[StrId("s1")])) = 2
    /\ Len(sessions[StrId("s1")].conversation_history) = 2

\* C23: after every process_message call of ai_planning_agent.py has returned, the
\* session's stage is COMPLETE if and only if its learning_plan is set and the stage
\* is never PLANNING, so a reply's plan_ready is true exactly when the stage it
\* reports is COMPLETE.
C23_CompleteIffPlan ==
    /\ \A id \in DOMAIN sessions :
          /\ sessions[id].stage = "complete" <=> sessions[id].learning_plan # None
          /\ sessions[id].stage # "planning"
    /\ "result" \in DOMAIN ret => (ret.result.plan_ready <=> ret.result.stage = "complete")

\* C8: a first message to a fresh session that names a subject, an experience level
\* and a learning style leaves the profile holding subject, experience=beginner and
\* learning_style=hands-on after that single call, and the plan is generated in that
\* same turn.
C8_ScenarioInOneTurn ==
    (/\ ret # NoReturn
     /\ ret.message = ScenarioMsg
     /\ ret.llm = "ok"
     /\ Len(sessions[ret.result.session_id].conversation_history) = 2) =>
        LET session == sessions[ret.result.session_id]
        IN /\ Get(session.profile, "subject", "") = "python"
           /\ Get(session.profile, "experience", "") = "beginner"
           /\ Get(session.profile, "learning_style", "") = "hands-on"
           /\ session.learning_plan # None
           /\ ret.result.plan_ready

\* the profile dictionary of a session of either agent
ProfileOf(session) ==
    IF "profile" \in DOMAIN session THEN session.profile ELSE session.user_data

\* C9: in ai_planning_agent.py and simple_planning_agent.py each profile slot
\* (experience, learning_style) is filled at most once per session: once set, no
\* later message of the session changes its value.
C9_SlotsFilledOnce ==
    [][\A id \in DOMAIN sessions : \A slot \in {"experience", "learning_style"} :
          slot \in DOMAIN ProfileOf(sessions[id]) =>
             ProfileOf(sessions'[id])[slot] = ProfileOf(sessions[id])[slot]]_vars

(***************************************************************************)
(* Properties of the planning agents                                       *)
(***************************************************************************)
\* C1: for every session and every sequence of process_message calls handled one at
\* a time, in ai_planning_agent.py and in ai_planning_dict.py, the stage after a call
\* is never earlier than the stage before it in the order INITIAL < GATHERING <
\* PLANNING < COMPLETE, whatever the message and the LLM outcomes.
C1_StageNeverRegresses ==
    [][\A id \in DOMAIN sessions :
          StageRank(sessions'[id].stage) >= StageRank(sessions[id].stage)]_vars

\* a session of ai_planning_dict.py has gone from INITIAL to COMPLETE over several calls
C1_Witness ==
    /\ agent = "ai_planning_dict"
    /\ \E id \in DOMAIN sessions :
          /\ sessions[id].stage = "complete"
          /\ Len(sessions[id].conversation_history) >= 4

\* C3: _generate_learning_plan of ai_planning_dict.py never raises and always leaves
\* the session with a plan whose modules list and kanban_tasks list are both
\* non-empty, for every LLM outcome.
C3_GenerateAlwaysYieldsPlan ==
    (ret # NoReturn /\ ret.result.generated > 0) =>
        LET session == sessions[ret.result.session_id]
        IN /\ ~ret.result.raised
           /\ session.learning_plan # None
           /\ Len(session.learning_plan.modules) > 0
           /\ Len(session.learning_plan.kanban_tasks) > 0

\* C7: a session acquires a learning plan only when its profile already holds a
\* subject.
C7_PlanOnlyWithSubject ==
    \A id \in DOMAIN sessions :
        sessions[id].learning_plan # None =>
            ~Falsy(Get(sessions[id].profile, "subject", ""))

\* C11: every plan the deterministic template builds (_generate_learning_plan of
\* ai_planning_agent.py, _generate_fallback_plan of ai_planning_dict.py; its
\* plan_id comes from uuid4) has exactly three modules, one kanban task per
\* module, and every task in status todo.
C11_TemplatePlanShape ==
    \A id \in DOMAIN sessions :
       LET plan == sessions[id].learning_plan
       IN (plan # None /\ plan.plan_id > 0) =>
             /\ Len(plan.modules) = 3
             /\ Len(plan.kanban_tasks) = Len(plan.modules)
             /\ \A i \in DOMAIN plan.kanban_tasks : plan.kanban_tasks[i].status = "todo"

GradedCorrect(user_answers, questions) ==
    {k \in DOMAIN user_answers :
        LET m == MatchingQuestion(questions, user_answers[k].id)
        IN m # 0 /\ CheckAnswer(user_answers[k].answer, questions[m])}

\* C25: for every assessment and every list of submitted answers, several answers for
\* one question id included, grade_assessment returns score <= total and
\* score_percentage <= 100.
C25_ScoreWithinTotal ==
    (ret # NoReturn /\ ret.op = "grade_assessment") =>
        /\ ret.result.score <= ret.result.total
        /\ ret.result.score_percentage[1] <= 100 * ret.result.score_percentage[2]

\* C13: grade_assessment sets passed exactly when the number of submitted answers
\* graded correct is at least passing_score, which is floor(questions / 2) when
\* the assessment omits it; 2 questions, passing_score 1 and one correct answer
\* give passed, score 1 and 50 percent.
C13_PassedIffEnoughCorrect ==
    (ret # NoReturn /\ ret.op = "grade_assessment") =>
        LET questions == IF "questions" \in DOMAIN ret.assessment
                           THEN ret.assessment.questions ELSE <<>>
            passing_score == IF "passing_score" \in DOMAIN ret.assessment
                               THEN ret.assessment.passing_score
                               ELSE Len(questions) \div 2
            n == Cardinality(GradedCorrect(ret.user_answers, questions))
        IN /\ ret.result.passed <=> n >= passing_score
           /\ ret.result.score = n
           /\ (Len(questions) = 2 /\ passing_score = 1 /\ n = 1) =>
                 /\ ret.result.passed
                 /\ ret.result.score = 1
                 /\ ret.result.score_percentage = <<50, 1>>

\* two questions, passing_score 1, and exactly one correct multiple-choice answer
C13_Witness ==
    /\ ret # NoReturn
    /\ ret.op = "grade_assessment"
    /\ "passing_score" \in DOMAIN ret.assessment
    /\ ret.assessment.passing_score = 1
    /\ Len(ret.assessment.questions) = 2
    /\ ret.user_answers = <<[id |-> "q1", answer |-> StrV(<<"A">>)]>>
    /\ ret.result.passed
    /\ ret.result.score_percentage = <<50, 1>>

\* C14 as stated: score_percentage is 0 if and only if the assessment has zero
\* questions.
C14_AsStated ==
    (ret # NoReturn /\ ret.op = "grade_assessment") =>
        (ret.result.score_percentage = <<0, 1>> <=> ret.result.total = 0)

\* C14: score_percentage is 0 if and only if no submitted answer is graded
\* correct; an assessment with zero questions always gives 0.
C14_ZeroIffNoneCorrect ==
    (ret # NoReturn /\ ret.op = "grade_assessment") =>
        /\ ret.result.score_percentage = <<0, 1>> <=> ret.result.score = 0
        /\ ret.result.total = 0 => ret.result.score_percentage = <<0, 1>>

\* answers were submitted to an assessment without questions
C14_Witness ==
    /\ ret # NoReturn
    /\ ret.op = "grade_assessment"
    /\ ret.user_answers # <<>>
    /\ ret.result.total = 0
    /\ ret.result.score_percentage = <<0, 1>>

FailsQ(llm) == llm.kind = "raise" \/ JsonLoads(JsonStr(llm)) # "assessment"

\* C16: create_assessment_for_concept never raises; when the LLM call raises or
\* its output is no parseable JSON object with a questions key it returns
\* success false with the static fallback of two questions and passing_score 1;
\* otherwise it returns success true with the parsed assessment.
C16_FallbackIffFailure ==
    (ret # NoReturn /\ ret.op = "create_assessment_for_concept") =>
        IF ret.llm_called /\ FailsQ(ret.llm)
        THEN /\ ~ret.result.success
             /\ ret.result.assessment
                   = CreateFallbackAssessment(ret.concept, "Python", ret.difficulty)
             /\ Len(ret.result.assessment.questions) = 2
             /\ ret.result.assessment.passing_score = 1
        ELSE /\ ret.result.success
             /\ ret.result.assessment.questions = LlmQuestions

\* C28: for one (concept, subject, difficulty) key the LLM is invoked at most once and
\* every call returns the same assessment content, the first one produced, also when
\* two calls for the key overlap at the LLM await.  The cache never drops a key, so
\* the LLM is invoked a second time for a key exactly when a call reaches the LLM while
\* the key is cached or another call for the key is at the LLM.
C28_OneAssessmentPerKey ==
    [][/\ \A r \in DOMAIN pending' \ DOMAIN pending :
             /\ CacheKey(pending'[r].concept, "Python", pending'[r].difficulty)
                   \notin DOMAIN sessions
             /\ \A x \in DOMAIN pending :
                   <<pending[x].concept, pending[x].difficulty>>
                      # <<pending'[r].concept, pending'[r].difficulty>>
       /\ (/\ ret' # ret
           /\ CacheKey(ret'.concept, "Python", ret'.difficulty) \in DOMAIN sessions)
             => ret'.result.assessment
                   = sessions[CacheKey(ret'.concept, "Python", ret'.difficulty)]]_vars

\* the characters of the fragments the fallback assessment is made of
FragmentChars(w) ==
    CASE w = "A key concept in" ->
           <<"A", " ", "k", "e", "y", " ", "c", "o", "n", "c", "e", "p", "t", " ", "i",
             "n">>
      [] w = "An unrelated topic to" ->
           <<"A", "n", " ", "u", "n", "r", "e", "l", "a", "t", "e", "d", " ", "t", "o",
             "p", "i", "c", " ", "t", "o">>
      [] w = "A historical figure in" ->
           <<"A", " ", "h", "i", "s", "t", "o", "r", "i", "c", "a", "l", " ", "f", "i",
             "g", "u", "r", "e", " ", "i", "n">>
      [] w = "A tool used only in advanced" ->
           <<"A", " ", "t", "o", "o", "l", " ", "u", "s", "e", "d", " ", "o", "n", "l",
             "y", " ", "i", "n", " ", "a", "d", "v", "a", "n", "c", "e", "d">>
      [] w = "{subject}" ->
           <<"{", "s", "u", "b", "j", "e", "c", "t", "}">>
      [] w = "True" ->
           <<"T", "r", "u", "e">>
      [] w = "False" ->
           <<"F", "a", "l", "s", "e">>
      [] w = "Python" ->
           <<"P", "y", "t", "h", "o", "n">>

\* the str a sequence of fragments stands for: the fragments joined by spaces
RECURSIVE TextChars(_)
TextChars(text) ==
    IF text = <<>> THEN <<>>
    ELSE IF Len(text) = 1 THEN FragmentChars(text[1])
    ELSE FragmentChars(text[1]) \o <<" ">> \o TextChars(Tail(text))

\* a question of the fallback assessment as _check_answer receives it
FallbackQuestion(q) ==
    Question(q.id, q.type, [i \in 1..Len(q.options) |-> StrV(TextChars(q.options[i]))],
             StrV(TextChars(q.correct_answer)))

\* the question is graded correct for the index of one of its options or for the
\* text of one of its options
Answerable(question) ==
    \E i \in 1..Len(question.options) :
       \/ CheckAnswer(IntV(i - 1), question)
       \/ CheckAnswer(question.options[i], question)

\* C26: in the fallback assessment of _create_fallback_assessment each question's
\* correct_answer is one of the question's options, so each question is graded
\* correct for the index or the text of one of its options.
C26_FallbackAnswerable ==
    (/\ "op" \in DOMAIN ret
     /\ ret.op = "create_assessment_for_concept"
     /\ ~ret.result.success)
       => \A k \in 1..Len(ret.result.assessment.questions) :
             LET question == FallbackQuestion(ret.result.assessment.questions[k])
             IN /\ \E i \in 1..Len(question.options) :
                      question.options[i] = question.correct_answer
                /\ Answerable(question)

(***************************************************************************)
(* Properties of api_server.py.                                            *)
(***************************************************************************)
\* C18: GET /learning-plan/{session_id} answers 404 for a session id that is not in
\* the store or whose session is in stage INITIAL or GATHERING, and answers with
\* the session's stored plan otherwise; a chat reply reports plan_ready only when
\* the session holds a plan, and a session that holds a plan holds one for ever:
\* so every session whose reply has reported plan_ready gets its stored plan.
C18_Step ==
    /\ (ret' # ret /\ "status" \in DOMAIN ret') =>
          LET id == ret'.session_id
          IN /\ (id \notin DOMAIN sessions \/ sessions[id].stage \in {"initial", "gathering"})
                   => ret'.status = 404
             /\ (id \in DOMAIN sessions /\ sessions[id].learning_plan # None)
                   => ret'.status = 200 /\ ret'.data = sessions[id].learning_plan
    /\ (ret' # ret /\ "result" \in DOMAIN ret' /\ ret'.result.plan_ready) =>
          sessions'[ret'.result.session_id].learning_plan # None
    /\ \A id \in DOMAIN sessions :
          sessions[id].learning_plan # None =>
             id \in DOMAIN sessions' /\ sessions'[id].learning_plan # None
StreamRank(type) ==
    CASE type = "metadata" -> 0
      [] type = "content" -> 1
      [] type = "final_metadata" -> 2
      [] type \in SaveMethods -> 3
      [] OTHER -> 4

\* the concatenation of the content of the first n events
RECURSIVE ContentSent(_, _)
ContentSent(events, n) ==
    IF n = 0 THEN <<>>
    ELSE IF events[n].type = "content"
         THEN ContentSent(events, n - 1) \o events[n].content
         ELSE ContentSent(events, n - 1)

\* C19: the response of POST /chat/stream is one metadata event, content events
\* whose accumulated field is the concatenation of the content sent so far (the
\* last one the full reply), at most one final_metadata event and one complete
\* event; after an exception it ends with a single error event instead, with no
\* complete; the save methods are called, when the reply reports plan_ready,
\* after the last content event and before complete.
C19_StreamShape ==
    "events" \in DOMAIN ret =>
       LET events == ret.events
           n == Len(events)
           Types(T) == {i \in 1..n : events[i].type \in T}
       IN /\ n >= 1
          /\ events[1].type \in {"metadata", "error"}
          /\ Types({"metadata"}) \subseteq {1}
          /\ Types({"error", "complete"}) \subseteq {n}
          /\ Cardinality(Types({"final_metadata"})) <= 1
          /\ \A i \in 1..n : \A j \in (i + 1)..n :
                events[j].type # "error" =>
                   StreamRank(events[i].type) <= StreamRank(events[j].type)
          /\ \A i \in Types({"content"}) : events[i].accumulated = ContentSent(events, i)
          /\ pending = <<>> => events[n].type \in {"error", "complete"}
          /\ events[n].type = "complete" =>
                /\ ContentSent(events, n) = ret.text
                /\ \A i \in Types({"content"}) :
                      Types({"content"}) \subseteq 1..i => events[i].accumulated = ret.text
                /\ ret.plan_ready => Types({"save_learning_plan_for_conversation"}) # {}
          /\ \A i \in Types(SaveMethods) :
                ret.plan_ready /\ ContentSent(events, i) = ret.text

\* a reply of two characters or more that reports plan_ready has been streamed to
\* its complete event, with final_metadata and the save in between
C19_Witness ==
    /\ "events" \in DOMAIN ret
    /\ pending = <<>>
    /\ ret.plan_ready
    /\ Len(ret.text) >= 2
    /\ ret.events[Len(ret.events)].type = "complete"
    /\ \E i, j \in 1..Len(ret.events) :
          /\ i < j
          /\ ret.events[i].type = "final_metadata"
          /\ ret.events[j].type = "save_learning_plan_for_conversation"

\* C24: across any sequence of POST /chat and POST /chat/stream requests for one
\* session, the session's generated plan is inserted into the learning_plans table at
\* most once.
C24_PlanSavedOnce ==
    \A i, j \in DOMAIN db.learning_plans :
       db.learning_plans[i].plan_id = db.learning_plans[j].plan_id => i = j

\* what the last process that was started did
LastOutcome(r) ==
    IF Len(r.result.ran) = 2 \/ LanguageOf(r.request.language) \notin Compiled
    THEN r.run ELSE r.comp

\* C17: POST /teaching/execute-code always returns a result and never raises;
\* success is true exactly when the last process that ran exited with code 0;
\* empty code, an unsupported language and a timeout give success false with
\* exit_code -1, a compile error gives success false; and for java, c and cpp
\* the program is never run when the compiler returned a non-zero code.
C17_ExecuteCodeResult ==
    (ret # NoReturn /\ ret.op = "execute_code") =>
        LET language == LanguageOf(ret.request.language)
            blank == StripCode(IF ret.request.code = NullValue THEN "" ELSE ret.request.code) = ""
            result == ret.result
        IN /\ result.raised = ""
           /\ result.success <=>
                 (result.ran # <<>> /\ LastOutcome(ret) = Exited(0))
           /\ blank => ~result.success /\ result.exit_code = -1 /\ result.ran = <<>>
           /\ language \notin Supported =>
                 ~result.success /\ result.exit_code = -1 /\ result.ran = <<>>
           /\ (result.ran # <<>> /\ LastOutcome(ret) = TimedOut) =>
                 ~result.success /\ result.exit_code = -1
           /\ (~blank /\ language \in Compiled /\ ret.comp.kind = "exit" /\ ret.comp.code # 0) =>
                 ~result.success /\ result.ran = <<Compiler(language)>>

\* a java program whose compilation succeeds and whose run hits the timeout
C17_Witness ==
    /\ ret # NoReturn
    /\ ret.op = "execute_code"
    /\ ret.request.language = "JAVA"
    /\ ret.comp = Exited(0)
    /\ ret.run = TimedOut
    /\ ret.result.ran = <<"javac", "java">>
    /\ ~ret.result.success
    /\ ret.result.exit_code = -1

(***************************************************************************)
(* Properties of conversational_chat.py                                    *)
(***************************************************************************)
\* C20: in ConversationalChatSystem, with messages handled one at a time, no session's
\* stage moves to an earlier position in the order GREETING < REQUIREMENTS_GATHERING <
\* PLAN_PRESENTATION < PLAN_APPROVAL < TEACHING < ASSESSMENT < COMPLETED, and a
\* new-journey message to a session in COMPLETED leaves that session in COMPLETED.
C20_StageNeverMovesBack ==
    [][/\ \A id \in DOMAIN sessions :
             /\ id \in DOMAIN sessions'
             /\ StageRankC(sessions'[id].stage) >= StageRankC(sessions[id].stage)
       /\ \A id \in DOMAIN sessions :
             (/\ sessions[id].stage = "completed"
              /\ ret'.session_id = id
              /\ HasAny(LowerMsg(ret'.message), NewJourneyWords))
                => sessions'[id].stage = "completed"]_vars

\* a session has gone through every stage up to COMPLETED and has then been sent a
\* new-journey message, which stored a new session in GREETING
C20_Witness ==
    /\ agent = "conversational_chat"
    /\ "before" \in DOMAIN ret
    /\ ret.before = "completed"
    /\ HasAny(LowerMsg(ret.message), NewJourneyWords)
    /\ sessions[ret.session_id].stage = "completed"
    /\ sessions[ret.session_id].learning_plan # None
    /\ \E id \in DOMAIN sessions : id # ret.session_id /\ sessions[id].stage = "greeting"

\* C21: a message with a new-journey keyword sent to a session in COMPLETED makes
\* process_message return a reply, and the reply carries the id of a newly created
\* session that is stored in GREETING with empty requirements.
C21_NewJourneyReplies ==
    (/\ "before" \in DOMAIN ret
     /\ ret.before = "completed"
     /\ HasAny(LowerMsg(ret.message), NewJourneyWords))
       => /\ ~ret.raised
          /\ ret.result.session_id # ret.session_id
          /\ ret.result.session_id \in DOMAIN sessions
          /\ sessions[ret.result.session_id].stage = "greeting"
          /\ sessions[ret.result.session_id].requirements = NewRequirementsC

\* the words _handle_teaching takes for a request to continue
ContinueWords == {"continue", "next", "proceed", "move on"}

\* the session is at the last concept of the last module of its plan
AtLastConceptC(session) ==
    /\ session.learning_plan # None
    /\ session.current_module_index = Len(session.learning_plan.modules) - 1
    /\ session.current_lesson_step
          = Len(session.learning_plan.modules[session.current_module_index + 1].key_concepts) - 1

\* the indices of a session point at a module of its plan and a concept of that module
ValidIndicesC(session) ==
    /\ session.learning_plan # None
    /\ session.current_module_index \in 0..(Len(session.learning_plan.modules) - 1)
    /\ session.current_lesson_step \in
          0..(Len(session.learning_plan.modules[session.current_module_index + 1].key_concepts) - 1)

\* C27: whenever a session is in TEACHING, current_module_index is a valid index into the
\* plan's modules and current_lesson_step is a valid index into the current module's
\* key_concepts; a session moves to COMPLETED exactly on the continue request that
\* advances past the last concept of the last module, and at that point every module of
\* its plan is marked completed.
C27_TeachingIndicesValid ==
    /\ [](\A id \in DOMAIN sessions :
             (agent = "conversational_chat" /\ sessions[id].stage = "teaching")
                => ValidIndicesC(sessions[id]))
    /\ [][agent = "conversational_chat" =>
            \A id \in DOMAIN sessions' :
               LET moves == /\ sessions'[id].stage = "completed"
                            /\ id \in DOMAIN sessions => sessions[id].stage # "completed"
                   last == /\ id \in DOMAIN sessions
                           /\ sessions[id].stage = "teaching"
                           /\ ret'.session_id = id
                           /\ HasAny(LowerMsg(ret'.message), ContinueWords)
                           /\ AtLastConceptC(sessions[id])
               IN /\ moves <=> last
                  /\ moves => \A m \in DOMAIN sessions'[id].learning_plan.modules :
                                  sessions'[id].learning_plan.modules[m].completed]_vars

\* a session has been taught up to the last concept of the last module and the continue
\* request has completed it
C27_Witness ==
    /\ agent = "conversational_chat"
    /\ "before" \in DOMAIN ret
    /\ ret.before = "teaching"
    /\ HasAny(LowerMsg(ret.message), ContinueWords)
    /\ sessions[ret.session_id].stage = "completed"
    /\ sessions[ret.session_id].current_module_index = 2
    /\ \A m \in DOMAIN sessions[ret.session_id].learning_plan.modules :
          sessions[ret.session_id].learning_plan.modules[m].completed

(***************************************************************************)
(* Properties of user_service.py                                           *)
(***************************************************************************)
\* C22: when create_user_from_clerk has inserted the user row and sending the welcome
\* e-mail then fails (it returns False or raises), the call returns success=True with
\* the id of the new row, and the row stays in the table, like every earlier row.
C22_MailFailureKeepsUser ==
    [][/\ SubSeq(db'.users, 1, Len(db.users)) = db.users
       /\ (/\ Len(db'.users) > Len(db.users)
           /\ ret'.fault = "none"
           /\ ret'.mail # "sent")
             => /\ ret'.result.success
                /\ ret'.result.user_id = db'.users[Len(db'.users)].id
                /\ db'.users[Len(db'.users)].email = ret'.email]_vars

\* a user has been inserted by a call whose welcome e-mail raised, after another user
C22_Witness ==
    /\ agent = "user_service"
    /\ "mail" \in DOMAIN ret
    /\ ret.mail = "raise"
    /\ ret.fault = "none"
    /\ Len(db.users) = 2
    /\ db.users[2].email = ret.email
    /\ ret.result.success

\* the replies of the session that are not the greeting of the INITIAL stage; the
\* first of them answers the message that put the session into GATHERING
RepliesAfterInitialS(session) ==
    {i \in DOMAIN session.conversation_history :
        /\ session.conversation_history[i].sender = "ai"
        /\ session.conversation_history[i].message # Reply(HelloS)}

\* the number of messages the session has received since it was put into GATHERING
FurtherMessagesS(session) ==
    LET replies == RepliesAfterInitialS(session)
        entered == CHOOSE i \in replies : \A j \in replies : i <= j
    IN IF replies = {} THEN 0
       ELSE Cardinality({i \in DOMAIN session.conversation_history :
                           /\ i > entered
                           /\ session.conversation_history[i].sender = "user"})

\* C30: in SimplePlanningAgent a session that is in GATHERING reaches COMPLETE with a
\* learning plan after at most 4 further messages, whatever their text, and stays in
\* COMPLETE from then on: a session in GATHERING has received fewer than 4 messages
\* since it got there, it leaves GATHERING only for COMPLETE, a session in COMPLETE
\* holds a plan, and no message takes it out of COMPLETE.
C30_CompleteWithinFour ==
    /\ [](agent = "simple_planning_agent" =>
             \A id \in DOMAIN sessions :
                /\ sessions[id].stage = "gathering" => FurtherMessagesS(sessions[id]) < 4
                /\ sessions[id].stage = "complete" => sessions[id].learning_plan # None)
    /\ [][agent = "simple_planning_agent" =>
            \A id \in DOMAIN sessions :
               /\ id \in DOMAIN sessions'
               /\ sessions[id].stage = "gathering"
                     => sessions'[id].stage \in {"gathering", "complete"}
               /\ sessions[id].stage = "complete" => sessions'[id].stage = "complete"]_vars

\* a session was put into GATHERING, four messages without a keyword followed, the
\* fourth of them completed it
C30_Witness ==
    /\ agent = "simple_planning_agent"
    /\ \E id \in DOMAIN sessions :
          /\ sessions[id].stage = "complete"
          /\ sessions[id].learning_plan # None
          /\ FurtherMessagesS(sessions[id]) = 4
          /\ sessions[id].questions_asked = 4
          /\ "experience" \notin DOMAIN sessions[id].user_data

(***************************************************************************)
(* Properties of the guarded extractors.                                   *)
(***************************************************************************)
\* C10: for each of the three guarded extractors, every profile p and every
\* message m: applying the extractor with m again after it has been applied with
\* m changes nothing, and every slot that is non-empty in p keeps its value.
C10_GuardedExtractors ==
    [][LET p == sessions[StrId("s1")].profile
           q == sessions'[StrId("s1")].profile
       IN /\ Extract(agent, q, ret'.message) = q
          /\ \A slot \in DOMAIN p :
                ~Falsy(p[slot]) => slot \in DOMAIN q /\ q[slot] = p[slot]]_vars

\* the professional extractor has met "beginner" and "hands-on" in a profile
\* that was "advanced" already: the style is filled, the experience is kept
C10_Witness ==
    /\ agent = "professional_planning"
    /\ ret # NoReturn
    /\ ret.message = {"Beginner", "hands-on"}
    /\ ret.before.experience_level = "advanced"
    /\ ret.before.learning_style = NullValue
    /\ sessions[StrId("s1")].profile.experience_level = "advanced"
    /\ sessions[StrId("s1")].profile.learning_style = "hands-on"

====
